---- MODULE Spec2Model ----
(***************************************************************************)
(* envx: the encryption envelope (pkg/crypto) and the key providers        *)
(* (pkg/keystore).  Go strings and byte slices are sequences of byte       *)
(* values 0..255.                                                          *)
(***************************************************************************)
EXTENDS Integers, Sequences, FiniteSets, TLC

(***************************************************************************)
(* Bounds of the model.                                                    *)
(***************************************************************************)
NumKeys == 2
NumNonces == 2
NumSalts == 2
NumGoroutines == 2

(***************************************************************************)
(* Program and library constants.                                          *)
(***************************************************************************)
KeySize == 32
SaltSize == 32
DefaultIterations == 100000
NonceSize == 12
TagSize == 16
\* "envx"
MagicPrefix == <<101, 110, 118, 120>>

(***************************************************************************)
(* Byte-sequence helpers.                                                  *)
(***************************************************************************)
Take(s, n) == SubSeq(s, 1, n)
Drop(s, n) == SubSeq(s, n + 1, Len(s))
HasPrefix(s, p) == Len(s) >= Len(p) /\ Take(s, Len(p)) = p

RECURSIVE SumSeq(_)
SumSeq(s) == IF s = <<>> THEN 0 ELSE s[1] + SumSeq(Tail(s))

\* position-weighted checksum of a byte sequence
RECURSIVE WSum(_, _)
WSum(s, w) == IF s = <<>> THEN 0 ELSE (w * (s[1] + 1)) + WSum(Tail(s), w + 1)

(***************************************************************************)
(* encoding/base64 StdEncoding, as used by the codec.                      *)
(***************************************************************************)
PadChar == 61

B64Char(i) ==
  IF i < 26 THEN 65 + i
  ELSE IF i < 52 THEN 97 + (i - 26)
  ELSE IF i < 62 THEN 48 + (i - 52)
  ELSE IF i = 62 THEN 43
  ELSE 47

B64Val(c) ==
  IF c >= 65 /\ c <= 90 THEN c - 65
  ELSE IF c >= 97 /\ c <= 122 THEN (c - 97) + 26
  ELSE IF c >= 48 /\ c <= 57 THEN (c - 48) + 52
  ELSE IF c = 43 THEN 62
  ELSE IF c = 47 THEN 63
  ELSE -1

RECURSIVE EncodeToString(_)
EncodeToString(b) ==
  IF Len(b) = 0 THEN <<>>
  ELSE IF Len(b) = 1 THEN
    << B64Char(b[1] \div 4), B64Char((b[1] % 4) * 16), PadChar, PadChar >>
  ELSE IF Len(b) = 2 THEN
    << B64Char(b[1] \div 4),
       B64Char(((b[1] % 4) * 16) + (b[2] \div 16)),
       B64Char((b[2] % 16) * 4),
       PadChar >>
  ELSE
    << B64Char(b[1] \div 4),
       B64Char(((b[1] % 4) * 16) + (b[2] \div 16)),
       B64Char(((b[2] % 16) * 4) + (b[3] \div 64)),
       B64Char(b[3] % 64) >> \o EncodeToString(Drop(b, 3))

\* the decoder skips '\r' and '\n' anywhere in the input
RECURSIVE StripNewlines(_)
StripNewlines(s) ==
  IF s = <<>> THEN <<>>
  ELSE IF s[1] = 10 \/ s[1] = 13 THEN StripNewlines(Tail(s))
  ELSE <<s[1]>> \o StripNewlines(Tail(s))

\* one quantum of four characters; last says whether it is the final one
DecodeQuantum(q, last) ==
  LET v1 == B64Val(q[1])
      v2 == B64Val(q[2])
      v3 == B64Val(q[3])
      v4 == B64Val(q[4])
  IN IF v1 < 0 \/ v2 < 0 THEN [ok |-> FALSE, bytes |-> <<>>]
     ELSE IF q[3] = PadChar THEN
       IF last /\ q[4] = PadChar
       THEN [ok |-> TRUE, bytes |-> << (v1 * 4) + (v2 \div 16) >>]
       ELSE [ok |-> FALSE, bytes |-> <<>>]
     ELSE IF v3 < 0 THEN [ok |-> FALSE, bytes |-> <<>>]
     ELSE IF q[4] = PadChar THEN
       IF last
       THEN [ok |-> TRUE,
             bytes |-> << (v1 * 4) + (v2 \div 16),
                          ((v2 % 16) * 16) + (v3 \div 4) >>]
       ELSE [ok |-> FALSE, bytes |-> <<>>]
     ELSE IF v4 < 0 THEN [ok |-> FALSE, bytes |-> <<>>]
     ELSE [ok |-> TRUE,
           bytes |-> << (v1 * 4) + (v2 \div 16),
                        ((v2 % 16) * 16) + (v3 \div 4),
                        ((v3 % 4) * 64) + v4 >>]

RECURSIVE DecodeQuanta(_)
DecodeQuanta(t) ==
  IF t = <<>> THEN [ok |-> TRUE, bytes |-> <<>>]
  ELSE LET d == DecodeQuantum(Take(t, 4), Len(t) = 4)
       IN IF ~d.ok THEN d
          ELSE LET r == DecodeQuanta(Drop(t, 4))
               IN IF ~r.ok THEN r
                  ELSE [ok |-> TRUE, bytes |-> d.bytes \o r.bytes]

DecodeString(s) ==
  LET t == StripNewlines(s)
  IN IF Len(t) % 4 # 0 THEN [ok |-> FALSE, bytes |-> <<>>]
     ELSE DecodeQuanta(t)

(***************************************************************************)
(* AES-256-GCM, idealised: a keyed stream cipher and a keyed 16-byte tag   *)
(* over nonce and ciphertext.  Open releases plaintext only when the tag   *)
(* recomputed under the given key matches.                                 *)
(***************************************************************************)
KeyStream(key, nonce, i) ==
  (key[((i - 1) % KeySize) + 1] + nonce[((i - 1) % NonceSize) + 1] + i) % 256

GcmTag(key, nonce, ct) ==
  [j \in 1..TagSize |->
     ((key[j] * 5) + (key[j + TagSize] * 3) + SumSeq(nonce) + WSum(ct, j)) % 256]

GcmSeal(key, nonce, plaintext) ==
  LET ct == [i \in 1..Len(plaintext) |->
               (plaintext[i] + KeyStream(key, nonce, i)) % 256]
  IN ct \o GcmTag(key, nonce, ct)

GcmOpen(key, nonce, data) ==
  IF Len(data) < TagSize THEN [ok |-> FALSE, bytes |-> <<>>]
  ELSE LET ct == Take(data, Len(data) - TagSize)
           tag == Drop(data, Len(data) - TagSize)
       IN IF tag # GcmTag(key, nonce, ct) THEN [ok |-> FALSE, bytes |-> <<>>]
          ELSE [ok |-> TRUE,
                bytes |-> [i \in 1..Len(ct) |->
                             (ct[i] + 256 - KeyStream(key, nonce, i)) % 256]]

(***************************************************************************)
(* pkg/crypto: AESEncryptor.                                               *)
(***************************************************************************)
\* nonce is the value read from rand.Reader
encryptAES(key, plaintext, nonce) == nonce \o GcmSeal(key, nonce, plaintext)

\* variant: a remainder shorter than the nonce is taken as an empty plaintext
decryptAES_ShortOk(key, ciphertext) ==
  IF Len(ciphertext) < NonceSize THEN [ok |-> TRUE, bytes |-> <<>>]
  ELSE GcmOpen(key, Take(ciphertext, NonceSize), Drop(ciphertext, NonceSize))

decryptAES(key, ciphertext) ==
  IF Len(ciphertext) < NonceSize THEN [ok |-> FALSE, bytes |-> <<>>]
  ELSE GcmOpen(key, Take(ciphertext, NonceSize), Drop(ciphertext, NonceSize))

\* variant: the marker is looked for in the text itself, not in its decoding
IsEncrypted_RawPrefix(value) ==
  Len(value) > Len(MagicPrefix) /\ HasPrefix(value, MagicPrefix)

IsEncrypted(value) ==
  LET d == DecodeString(value)
  IN IF ~d.ok THEN FALSE
     ELSE Len(d.bytes) > Len(MagicPrefix) /\ HasPrefix(d.bytes, MagicPrefix)

\* variant: the magic marker is not prepended
Encrypt_NoMagic(plaintext, key, nonce) ==
  IF Len(key) # KeySize THEN [err |-> "InvalidKeySize", out |-> <<>>]
  ELSE IF IsEncrypted(plaintext) THEN [err |-> "none", out |-> plaintext]
  ELSE [err |-> "none",
        out |-> EncodeToString(encryptAES(key, plaintext, nonce))]

\* variant: the already-encrypted test comes before the key-size test
Encrypt_LateKeyCheck(plaintext, key, nonce) ==
  IF IsEncrypted(plaintext) THEN [err |-> "none", out |-> plaintext]
  ELSE IF Len(key) # KeySize THEN [err |-> "InvalidKeySize", out |-> <<>>]
  ELSE [err |-> "none",
        out |-> EncodeToString(MagicPrefix \o encryptAES(key, plaintext, nonce))]

Encrypt(plaintext, key, nonce) ==
  IF Len(key) # KeySize THEN [err |-> "InvalidKeySize", out |-> <<>>]
  ELSE IF IsEncrypted(plaintext) THEN [err |-> "none", out |-> plaintext]
  ELSE [err |-> "none",
        out |-> EncodeToString(MagicPrefix \o encryptAES(key, plaintext, nonce))]

\* variant: base64 text without the marker is reported as a failure
Decrypt_ErrOnNoMagic(ciphertext, key) ==
  IF Len(key) # KeySize
  THEN [err |-> "InvalidKeySize", out |-> <<>>, branch |-> "keySize"]
  ELSE LET d == DecodeString(ciphertext)
       IN IF ~d.ok
          THEN [err |-> "none", out |-> ciphertext, branch |-> "notBase64"]
          ELSE IF Len(d.bytes) < Len(MagicPrefix) \/ ~HasPrefix(d.bytes, MagicPrefix)
          THEN [err |-> "DecryptionFailed", out |-> <<>>, branch |-> "noMagic"]
          ELSE LET p == decryptAES(key, Drop(d.bytes, Len(MagicPrefix)))
               IN IF ~p.ok
                  THEN [err |-> "DecryptionFailed", out |-> <<>>, branch |-> "decryptAES"]
                  ELSE [err |-> "none", out |-> p.bytes, branch |-> "decryptAES"]

\* variant: a value that fails to decrypt is handed back as if it were plaintext
Decrypt_PassOnFail(ciphertext, key) ==
  IF Len(key) # KeySize
  THEN [err |-> "InvalidKeySize", out |-> <<>>, branch |-> "keySize"]
  ELSE LET d == DecodeString(ciphertext)
       IN IF ~d.ok
          THEN [err |-> "none", out |-> ciphertext, branch |-> "notBase64"]
          ELSE IF Len(d.bytes) < Len(MagicPrefix) \/ ~HasPrefix(d.bytes, MagicPrefix)
          THEN [err |-> "none", out |-> ciphertext, branch |-> "noMagic"]
          ELSE LET p == decryptAES(key, Drop(d.bytes, Len(MagicPrefix)))
               IN IF ~p.ok
                  THEN [err |-> "none", out |-> ciphertext, branch |-> "decryptAES"]
                  ELSE [err |-> "none", out |-> p.bytes, branch |-> "decryptAES"]

\* branch records which return statement of Decrypt produced the result
Decrypt(ciphertext, key) ==
  IF Len(key) # KeySize
  THEN [err |-> "InvalidKeySize", out |-> <<>>, branch |-> "keySize"]
  ELSE LET d == DecodeString(ciphertext)
       IN IF ~d.ok
          THEN [err |-> "none", out |-> ciphertext, branch |-> "notBase64"]
          ELSE IF Len(d.bytes) < Len(MagicPrefix) \/ ~HasPrefix(d.bytes, MagicPrefix)
          THEN [err |-> "none", out |-> ciphertext, branch |-> "noMagic"]
          ELSE LET p == decryptAES(key, Drop(d.bytes, Len(MagicPrefix)))
               IN IF ~p.ok
                  THEN [err |-> "DecryptionFailed", out |-> <<>>, branch |-> "decryptAES"]
                  ELSE [err |-> "none", out |-> p.bytes, branch |-> "decryptAES"]

(***************************************************************************)
(* Inputs of the codec: keys, nonces and plaintexts.                       *)
(***************************************************************************)
KeyOf(b) == [i \in 1..KeySize |-> b]
GoodKeys == {KeyOf(b) : b \in 1..NumKeys}
BadKeyLens == {0, 16, 33}
BadKeys == {[i \in 1..n |-> 7] : n \in BadKeyLens}
Keys == GoodKeys \cup BadKeys
NonceOf(n) == [i \in 1..NonceSize |-> n]
Nonces == {NonceOf(n) : n \in 1..NumNonces}

\* "hi", "é" (two UTF-8 bytes), "hello", "abc"
TextHi == <<104, 105>>
TextMultiByte == <<195, 169>>
TextHello == <<104, 101, 108, 108, 111>>
TextAbc == <<97, 98, 99>>

Plaintexts ==
  { <<>>,
    TextHi,
    TextMultiByte,
    MagicPrefix,
    EncodeToString(TextHello),
    EncodeToString(MagicPrefix),
    EncodeToString(MagicPrefix \o TextAbc) }

(***************************************************************************)
(* pkg/keystore: what the providers keep.  A store maps every account to   *)
(* an item; an absent item stands for a missing map entry, keychain record *)
(* or salt file.                                                           *)
(***************************************************************************)
Accounts == {"alice", "bob"}

Absent == [present |-> FALSE, data |-> <<>>, readable |-> FALSE]
Item(d) == [present |-> TRUE, data |-> d, readable |-> TRUE]
Unreadable(d) == [present |-> TRUE, data |-> d, readable |-> FALSE]
EmptyStore == [a \in Accounts |-> Absent]
Put(store, account, d) == [store EXCEPT ![account] = Item(d)]

\* a stored value that is not a key: 16 bytes
ShortKey == [i \in 1..16 |-> 9]
SetKeyInputs == GoodKeys \cup {ShortKey, <<>>}

SaltOf(n) == [i \in 1..SaltSize |-> 100 + n]
Salts == {SaltOf(n) : n \in 1..NumSalts}
ShortSalt == [i \in 1..8 |-> 100]

\* "p1", "p2", "pe", "pc"
PromptPasswords == {<<112, 49>>, <<112, 50>>}
EnvPasswordText == <<112, 101>>
ConfigPasswordText == <<112, 99>>

NoKey == <<>>

(***************************************************************************)
(* MockKeyStore: an in-memory map from account to key.                     *)
(***************************************************************************)
MockKeyStore_GetKey(keys, account) ==
  IF ~keys[account].present
  THEN [err |-> "KeyNotFound", key |-> NoKey]
  ELSE [err |-> "none", key |-> keys[account].data]

\* variant: an account that has a key keeps it
MockKeyStore_SetKey_KeepExisting(keys, account, key) ==
  IF Len(key) # KeySize
  THEN [err |-> "InvalidKeySize", store |-> keys]
  ELSE IF keys[account].present
  THEN [err |-> "none", store |-> keys]
  ELSE [err |-> "none", store |-> Put(keys, account, key)]

MockKeyStore_SetKey(keys, account, key) ==
  IF Len(key) # KeySize
  THEN [err |-> "InvalidKeySize", store |-> keys]
  ELSE [err |-> "none", store |-> Put(keys, account, key)]

\* rnd is the value read from rand.Read
MockKeyStore_CreateKey(keys, account, rnd) ==
  LET s == MockKeyStore_SetKey(keys, account, rnd)
  IN IF s.err # "none"
     THEN [err |-> s.err, key |-> NoKey, store |-> s.store]
     ELSE [err |-> "none", key |-> rnd, store |-> s.store]

\* variant: the existing key is never looked at
MockKeyStore_LoadOrCreateKey_AlwaysCreate(keys, account, rnd) ==
  LET g == MockKeyStore_GetKey(keys, account)
      c == MockKeyStore_CreateKey(keys, account, rnd)
  IN [err |-> c.err, key |-> c.key, store |-> c.store, created |-> TRUE,
      lookupErr |-> g.err]

MockKeyStore_LoadOrCreateKey(keys, account, rnd) ==
  LET g == MockKeyStore_GetKey(keys, account)
  IN IF g.err = "none" /\ Len(g.key) = KeySize
     THEN [err |-> "none", key |-> g.key, store |-> keys, created |-> FALSE,
           lookupErr |-> g.err]
     ELSE LET c == MockKeyStore_CreateKey(keys, account, rnd)
          IN [err |-> c.err, key |-> c.key, store |-> c.store, created |-> TRUE,
              lookupErr |-> g.err]

(***************************************************************************)
(* macOSKeyStore over the keychain.  lookup and write are the statuses the *)
(* credential store answers with: "ok" for its regular answer, "error" for *)
(* any other status.  On a platform other than darwin the stubs are built. *)
(***************************************************************************)
getGenericPassword(kc, platform, account, lookup) ==
  IF platform # "darwin"
  THEN [err |-> "PlatformUnavailable", password |-> NoKey]
  ELSE IF lookup = "ok" /\ ~kc[account].present
  THEN [err |-> "NotFound", password |-> NoKey]
  ELSE IF lookup # "ok"
  THEN [err |-> "Unhandled", password |-> NoKey]
  ELSE [err |-> "none", password |-> kc[account].data]

\* variant: where there is no keychain the write is taken as done
setGenericPassword_SilentOnOther(kc, platform, account, password, write) ==
  IF platform = "darwin" /\ write # "ok"
  THEN [err |-> "SetFailed", store |-> kc]
  ELSE IF platform = "darwin"
  THEN [err |-> "none", store |-> Put(kc, account, password)]
  ELSE [err |-> "none", store |-> kc]

setGenericPassword(kc, platform, account, password, write) ==
  IF platform # "darwin"
  THEN [err |-> "PlatformUnavailable", store |-> kc]
  ELSE IF write # "ok"
  THEN [err |-> "SetFailed", store |-> kc]
  ELSE [err |-> "none", store |-> Put(kc, account, password)]

macOSKeyStore_GetKey(kc, platform, account, lookup) ==
  LET g == getGenericPassword(kc, platform, account, lookup)
  IN IF g.err # "none"
     THEN [err |-> g.err, key |-> NoKey]
     ELSE [err |-> "none", key |-> g.password]

\* variant: the key goes to the keychain without a look at its length
macOSKeyStore_SetKey_NoSizeCheck(kc, platform, account, key, write) ==
  setGenericPassword(kc, platform, account, key, write)

macOSKeyStore_SetKey(kc, platform, account, key, write) ==
  IF Len(key) # KeySize
  THEN [err |-> "InvalidKeySize", store |-> kc]
  ELSE setGenericPassword(kc, platform, account, key, write)

macOSKeyStore_CreateKey(kc, platform, account, rnd, write) ==
  LET s == macOSKeyStore_SetKey(kc, platform, account, rnd, write)
  IN IF s.err # "none"
     THEN [err |-> s.err, key |-> NoKey, store |-> s.store]
     ELSE [err |-> "none", key |-> rnd, store |-> s.store]

\* variant: whatever the lookup returns is taken as the key, whatever its length
macOSKeyStore_LoadOrCreateKey_AnyLength(kc, platform, account, rnd, lookup, write) ==
  LET g == macOSKeyStore_GetKey(kc, platform, account, lookup)
  IN IF g.err = "none"
     THEN [err |-> "none", key |-> g.key, store |-> kc, created |-> FALSE,
           lookupErr |-> g.err]
     ELSE LET c == macOSKeyStore_CreateKey(kc, platform, account, rnd, write)
          IN [err |-> c.err, key |-> c.key, store |-> c.store, created |-> TRUE,
              lookupErr |-> g.err]

macOSKeyStore_LoadOrCreateKey(kc, platform, account, rnd, lookup, write) ==
  LET g == macOSKeyStore_GetKey(kc, platform, account, lookup)
  IN IF g.err = "none" /\ Len(g.key) = KeySize
     THEN [err |-> "none", key |-> g.key, store |-> kc, created |-> FALSE,
           lookupErr |-> g.err]
     ELSE LET c == macOSKeyStore_CreateKey(kc, platform, account, rnd, write)
          IN [err |-> c.err, key |-> c.key, store |-> c.store, created |-> TRUE,
              lookupErr |-> g.err]

(***************************************************************************)
(* PasswordKeyStore: one salt file per account, the key derived on demand. *)
(***************************************************************************)
\* pbkdf2.Key over SHA-256, idealised: a 32-byte value fixed by password,
\* salt and iteration count.  The first byte mixes the password and the
\* iteration count, the others are taken from the 32-byte salt.
pbkdf2Key(password, salt, iterations) ==
  <<(WSum(password, 1) + iterations) % 256>> \o SubSeq(salt, 2, KeySize)

\* variant: the configured password is looked at before the environment
getPassword_ConfigFirst(env, password, answer) ==
  IF password # <<>>
  THEN [err |-> "none", password |-> password, prompts |-> 0]
  ELSE IF env # <<>>
  THEN [err |-> "none", password |-> env, prompts |-> 0]
  ELSE IF ~answer.ok
  THEN [err |-> "PromptFailed", password |-> <<>>, prompts |-> 1]
  ELSE [err |-> "none", password |-> answer.text, prompts |-> 1]

\* answer is what the prompt function returns
getPassword(env, password, answer) ==
  IF env # <<>> THEN [err |-> "none", password |-> env, prompts |-> 0]
  ELSE IF password # <<>>
  THEN [err |-> "none", password |-> password, prompts |-> 0]
  ELSE IF ~answer.ok
  THEN [err |-> "PromptFailed", password |-> <<>>, prompts |-> 1]
  ELSE [err |-> "none", password |-> answer.text, prompts |-> 1]

getSalt(files, account) ==
  IF ~files[account].present THEN [err |-> "SaltNotExist", salt |-> <<>>]
  ELSE IF ~files[account].readable THEN [err |-> "SaltUnreadable", salt |-> <<>>]
  ELSE IF Len(files[account].data) # SaltSize
  THEN [err |-> "InvalidSaltSize", salt |-> <<>>]
  ELSE [err |-> "none", salt |-> files[account].data]

\* write is the outcome of MkdirAll and WriteFile
setSalt(files, account, salt, write) ==
  IF Len(salt) # SaltSize THEN [err |-> "InvalidSaltSize", store |-> files]
  ELSE IF write # "ok" THEN [err |-> "WriteFailed", store |-> files]
  ELSE [err |-> "none", store |-> Put(files, account, salt)]

\* variant: the key is derived from the salt alone
PasswordKeyStore_GetKey_SaltOnly(files, account, env, password, answer) ==
  LET pw == getPassword(env, password, answer)
  IN IF pw.err # "none"
     THEN [err |-> pw.err, key |-> NoKey, prompts |-> pw.prompts, pw |-> <<>>]
     ELSE LET sl == getSalt(files, account)
          IN IF sl.err # "none"
             THEN [err |-> sl.err, key |-> NoKey, prompts |-> pw.prompts,
                   pw |-> pw.password]
             ELSE [err |-> "none",
                   key |-> pbkdf2Key(<<>>, sl.salt, DefaultIterations),
                   prompts |-> pw.prompts, pw |-> pw.password]

PasswordKeyStore_GetKey(files, account, env, password, answer) ==
  LET pw == getPassword(env, password, answer)
  IN IF pw.err # "none"
     THEN [err |-> pw.err, key |-> NoKey, prompts |-> pw.prompts, pw |-> <<>>]
     ELSE LET sl == getSalt(files, account)
          IN IF sl.err # "none"
             THEN [err |-> sl.err, key |-> NoKey, prompts |-> pw.prompts,
                   pw |-> pw.password]
             ELSE [err |-> "none",
                   key |-> pbkdf2Key(pw.password, sl.salt, DefaultIterations),
                   prompts |-> pw.prompts, pw |-> pw.password]

\* variant: a 32-byte key is accepted and written where the salt is kept
PasswordKeyStore_SetKey_WritesSalt(files, account, key) ==
  IF Len(key) # KeySize
  THEN [err |-> "Unsupported", store |-> files]
  ELSE [err |-> "none", store |-> Put(files, account, key)]

PasswordKeyStore_SetKey(files, account, key) ==
  [err |-> "Unsupported", store |-> files]

PasswordKeyStore_CreateKey(files, account, env, password, answer, rnd, write) ==
  LET st == setSalt(files, account, rnd, write)
  IN IF st.err # "none"
     THEN [err |-> st.err, key |-> NoKey, store |-> st.store, prompts |-> 0,
           pw |-> <<>>]
     ELSE LET pw == getPassword(env, password, answer)
          IN IF pw.err # "none"
             THEN [err |-> pw.err, key |-> NoKey, store |-> st.store,
                   prompts |-> pw.prompts, pw |-> <<>>]
             ELSE [err |-> "none",
                   key |-> pbkdf2Key(pw.password, rnd, DefaultIterations),
                   store |-> st.store, prompts |-> pw.prompts,
                   pw |-> pw.password]

\* os.Stat reports "not exist" exactly when the account has no salt file
PasswordKeyStore_LoadOrCreateKey(files, account, env, password, answer, rnd, write) ==
  LET sl == getSalt(files, account)
  IN IF sl.err = "none"
     THEN LET g == PasswordKeyStore_GetKey(files, account, env, password, answer)
          IN [err |-> g.err, key |-> g.key, store |-> files,
              prompts |-> g.prompts, pw |-> g.pw, created |-> FALSE,
              lookupErr |-> sl.err]
     ELSE IF ~files[account].present
     THEN LET c == PasswordKeyStore_CreateKey(files, account, env, password,
                                              answer, rnd, write)
          IN [err |-> c.err, key |-> c.key, store |-> c.store,
              prompts |-> c.prompts, pw |-> c.pw, created |-> TRUE,
              lookupErr |-> sl.err]
     ELSE [err |-> sl.err, key |-> NoKey, store |-> files,
           prompts |-> 0, pw |-> <<>>, created |-> FALSE,
           lookupErr |-> sl.err]

(***************************************************************************)
(* PasswordKeyStore, earlier version: no configured password and no        *)
(* environment variable; every password comes from the prompt function,    *)
(* and CreateKey asks for it twice.  entry and confirm are what the prompt *)
(* function returns on its first and second call.                          *)
(***************************************************************************)
PasswordKeyStore_GetKey_Earlier(files, account, entry) ==
  IF ~entry.ok
  THEN [err |-> "PromptFailed", key |-> NoKey, prompts |-> 1, pw |-> <<>>]
  ELSE LET sl == getSalt(files, account)
       IN IF sl.err # "none"
          THEN [err |-> sl.err, key |-> NoKey, prompts |-> 1, pw |-> entry.text]
          ELSE [err |-> "none",
                key |-> pbkdf2Key(entry.text, sl.salt, DefaultIterations),
                prompts |-> 1, pw |-> entry.text]

PasswordKeyStore_CreateKey_Earlier(files, account, entry, confirm, rnd, write) ==
  LET st == setSalt(files, account, rnd, write)
  IN IF st.err # "none"
     THEN [err |-> st.err, key |-> NoKey, store |-> st.store, prompts |-> 0,
           pw |-> <<>>]
     ELSE IF ~entry.ok
     THEN [err |-> "PromptFailed", key |-> NoKey, store |-> st.store,
           prompts |-> 1, pw |-> <<>>]
     ELSE IF ~confirm.ok
     THEN [err |-> "PromptFailed", key |-> NoKey, store |-> st.store,
           prompts |-> 2, pw |-> entry.text]
     ELSE IF entry.text # confirm.text
     THEN [err |-> "PasswordMismatch", key |-> NoKey, store |-> st.store,
           prompts |-> 2, pw |-> entry.text]
     ELSE [err |-> "none",
           key |-> pbkdf2Key(entry.text, rnd, DefaultIterations),
           store |-> st.store, prompts |-> 2, pw |-> entry.text]

PasswordKeyStore_LoadOrCreateKey_Earlier(files, account, entry, confirm, rnd, write) ==
  LET sl == getSalt(files, account)
  IN IF sl.err = "none"
     THEN LET g == PasswordKeyStore_GetKey_Earlier(files, account, entry)
          IN [err |-> g.err, key |-> g.key, store |-> files,
              prompts |-> g.prompts, pw |-> g.pw, created |-> FALSE,
              lookupErr |-> sl.err]
     ELSE LET c == PasswordKeyStore_CreateKey_Earlier(files, account, entry,
                                                      confirm, rnd, write)
          IN [err |-> c.err, key |-> c.key, store |-> c.store,
              prompts |-> c.prompts, pw |-> c.pw, created |-> TRUE,
              lookupErr |-> sl.err]

(***************************************************************************)
(* pkg/env: an env file is a sequence of lines, a line a sequence of       *)
(* bytes.  The loader keeps the variables only; the writer prints one      *)
(* line per variable.                                                      *)
(***************************************************************************)
Variable(k, v) == [Key |-> k, Value |-> v]

\* the white space of strings.TrimSpace, for ASCII
IsSpace(c) == c \in {9, 10, 11, 12, 13, 32}

RECURSIVE TrimLeft(_)
TrimLeft(s) ==
  IF s # <<>> /\ IsSpace(s[1]) THEN TrimLeft(Tail(s)) ELSE s

RECURSIVE TrimRight(_)
TrimRight(s) ==
  IF s # <<>> /\ IsSpace(s[Len(s)]) THEN TrimRight(Take(s, Len(s) - 1)) ELSE s

TrimSpace(s) == TrimRight(TrimLeft(s))

\* position of the first byte c in s, counted from 1; 0 when there is none
IndexByte(s, c) ==
  IF \E i \in 1..Len(s) : s[i] = c
  THEN CHOOSE i \in 1..Len(s) : s[i] = c /\ \A j \in 1..(i - 1) : s[j] # c
  ELSE 0

ContainsAny(s, chars) == \E i \in 1..Len(s) : s[i] \in chars

\* one pass of the scanner loop of Load: the variables a line contributes
LoadLine(line) ==
  IF Len(line) = 0 \/ line[1] = 35 THEN <<>>
  ELSE LET eqIndex == IndexByte(line, 61)
       IN IF eqIndex = 0 THEN <<>>
          ELSE LET key == TrimSpace(Take(line, eqIndex - 1))
                   value == TrimSpace(Drop(line, eqIndex))
               IN IF Len(key) = 0 THEN <<>>
                  ELSE IF Len(value) >= 2 /\ value[1] = 34 /\ value[Len(value)] = 34
                  THEN <<Variable(key, SubSeq(value, 2, Len(value) - 1))>>
                  ELSE <<Variable(key, value)>>

RECURSIVE Load(_)
Load(lines) ==
  IF lines = <<>> THEN <<>> ELSE LoadLine(Head(lines)) \o Load(Tail(lines))

\* the verb %q: the text between double quotes, with the quote, the backslash,
\* the tab and the newline escaped
RECURSIVE QuoteBytes(_)
QuoteBytes(s) ==
  IF s = <<>> THEN <<>>
  ELSE (IF s[1] = 34 THEN <<92, 34>>
        ELSE IF s[1] = 92 THEN <<92, 92>>
        ELSE IF s[1] = 9 THEN <<92, 116>>
        ELSE IF s[1] = 10 THEN <<92, 110>>
        ELSE <<s[1]>>) \o QuoteBytes(Tail(s))

Quote(s) == <<34>> \o QuoteBytes(s) \o <<34>>

formatEnv(vars) ==
  [i \in 1..Len(vars) |->
     vars[i].Key \o <<61>> \o
       (IF ContainsAny(vars[i].Value, {32, 9, 10, 34})
        THEN Quote(vars[i].Value) ELSE vars[i].Value)]

\* the keys of vars, and for each the value of its last entry
ToMap(vars) ==
  [k \in {vars[i].Key : i \in 1..Len(vars)} |->
     LET last == CHOOSE i \in 1..Len(vars) :
                   /\ vars[i].Key = k
                   /\ \A j \in (i + 1)..Len(vars) : vars[j].Key # k
     IN vars[last].Value]

\* Variables.Set: the first entry named key gets the value, or one is appended
Variables_Set(vars, key, value) ==
  IF \E i \in 1..Len(vars) : vars[i].Key = key
  THEN LET first == CHOOSE i \in 1..Len(vars) :
                      /\ vars[i].Key = key
                      /\ \A j \in 1..(i - 1) : vars[j].Key # key
       IN [vars EXCEPT ![first] = Variable(key, value)]
  ELSE Append(vars, Variable(key, value))

\* variant: a value that fails to decrypt is kept as it stands in the file
LoadWithDecryption_KeepOnFail(lines, key) ==
  LET vars == Load(lines)
      dec == [i \in 1..Len(vars) |-> Decrypt(vars[i].Value, key)]
  IN [err |-> "none",
      vars |-> [i \in 1..Len(vars) |->
                  Variable(vars[i].Key,
                           IF dec[i].err = "none" THEN dec[i].out
                           ELSE vars[i].Value)]]

LoadWithDecryption(lines, key) ==
  LET vars == Load(lines)
      dec == [i \in 1..Len(vars) |-> Decrypt(vars[i].Value, key)]
  IN IF \E i \in 1..Len(vars) : dec[i].err # "none"
     THEN LET bad == CHOOSE i \in 1..Len(vars) :
                       /\ dec[i].err # "none"
                       /\ \A j \in 1..(i - 1) : dec[j].err = "none"
          IN [err |-> dec[bad].err, vars |-> <<>>]
     ELSE [err |-> "none",
           vars |-> [i \in 1..Len(vars) |-> Variable(vars[i].Key, dec[i].out)]]

(***************************************************************************)
(* The commands of the CLI over one env file, in the env format.  loaded   *)
(* is what loadKeyWithStringTypeAndPassword returns, n selects the nonces  *)
(* that rand.Reader hands out during the command.  A command returns its   *)
(* error, the file as it leaves it, what it prints (out) and, for run,     *)
(* whether the program was executed and with which variables (env).        *)
(***************************************************************************)
NonceAt(n, i) == NonceOf(((n + i) % NumNonces) + 1)

Failed(err, lines) ==
  [err |-> err, file |-> lines, out |-> <<>>, executed |-> FALSE, env |-> <<>>]
Printed(lines, out) ==
  [err |-> "none", file |-> lines, out |-> out, executed |-> FALSE, env |-> <<>>]
Written(lines) ==
  [err |-> "none", file |-> lines, out |-> <<>>, executed |-> FALSE, env |-> <<>>]

\* args is the set of the names given; no name stands for every variable
encryptCmd(lines, loaded, args, write, n) ==
  IF loaded.err # "none" THEN Failed(loaded.err, lines)
  ELSE LET vars == Load(lines)
           enc == [i \in 1..Len(vars) |->
                     IF args = {} \/ vars[i].Key \in args
                     THEN Encrypt(vars[i].Value, loaded.key, NonceAt(n, i))
                     ELSE [err |-> "none", out |-> vars[i].Value]]
       IN IF \E i \in 1..Len(vars) : enc[i].err # "none"
          THEN Failed("EncryptFailed", lines)
          ELSE LET new == [i \in 1..Len(vars) |-> Variable(vars[i].Key, enc[i].out)]
               IN IF ~write THEN Printed(lines, formatEnv(new))
                  ELSE Written(formatEnv(new))

decryptCmd(lines, loaded, args, write) ==
  IF loaded.err # "none" THEN Failed(loaded.err, lines)
  ELSE LET vars == Load(lines)
           dec == [i \in 1..Len(vars) |->
                     IF args = {} \/ vars[i].Key \in args
                     THEN Decrypt(vars[i].Value, loaded.key)
                     ELSE [err |-> "none", out |-> vars[i].Value]]
       IN IF \E i \in 1..Len(vars) : dec[i].err # "none"
          THEN Failed("DecryptionFailed", lines)
          ELSE LET new == [i \in 1..Len(vars) |-> Variable(vars[i].Key, dec[i].out)]
               IN IF ~write THEN Printed(lines, formatEnv(new))
                  ELSE Written(formatEnv(new))

\* the loop over the parsed arguments: order is the order in which the map
\* keyValues is ranged over
EncryptEach(keyValues, order, key, n) ==
  [i \in 1..Len(order) |->
     LET c == Encrypt(keyValues[order[i]], key, NonceAt(n, i))
     IN [err |-> c.err, var |-> Variable(order[i], c.out)]]

RECURSIVE SetEach(_, _)
SetEach(vars, new) ==
  IF new = <<>> THEN vars
  ELSE SetEach(Variables_Set(vars, new[1].var.Key, new[1].var.Value), Tail(new))

setCmdFn(lines, loaded, keyValues, order, print, n) ==
  IF loaded.err # "none" THEN Failed(loaded.err, lines)
  ELSE LET vars == Load(lines)
           new == EncryptEach(keyValues, order, loaded.key, n)
       IN IF \E i \in 1..Len(new) : new[i].err # "none"
          THEN Failed("EncryptFailed", lines)
          ELSE IF print
          THEN Printed(lines, formatEnv([i \in 1..Len(new) |-> new[i].var]))
          ELSE Written(formatEnv(SetEach(vars, new)))

\* variant: the names are not looked up in the file before they are stored
addCmdFn_NoExistsCheck(lines, loaded, keyValues, order, print, n) ==
  setCmdFn(lines, loaded, keyValues, order, print, n)

addCmdFn(lines, loaded, keyValues, order, print, n) ==
  IF loaded.err # "none" THEN Failed(loaded.err, lines)
  ELSE LET vars == Load(lines)
           varMap == ToMap(vars)
       IN IF \E k \in DOMAIN keyValues : k \in DOMAIN varMap
          THEN Failed("AlreadyExists", lines)
          ELSE LET new == EncryptEach(keyValues, order, loaded.key, n)
               IN IF \E i \in 1..Len(new) : new[i].err # "none"
                  THEN Failed("EncryptFailed", lines)
                  ELSE IF print
                  THEN Printed(lines, formatEnv([i \in 1..Len(new) |-> new[i].var]))
                  ELSE Written(formatEnv(SetEach(vars, new)))

\* get without names prints every variable, with a name that one
getCmdFn(lines, loaded, args) ==
  IF loaded.err # "none" THEN Failed(loaded.err, lines)
  ELSE LET l == LoadWithDecryption(lines, loaded.key)
       IN IF l.err # "none" THEN Failed(l.err, lines)
          ELSE IF args = {}
          THEN Printed(lines, [i \in 1..Len(l.vars) |->
                                 l.vars[i].Key \o <<61>> \o l.vars[i].Value])
          ELSE LET varMap == ToMap(l.vars)
                   arg == CHOOSE a \in args : TRUE
               IN IF arg \in DOMAIN varMap
                  THEN Printed(lines, <<arg \o <<61>> \o varMap[arg]>>)
                  ELSE Failed("VariableNotFound", lines)

\* run sets every variable in the environment and executes the program
run(lines, loaded) ==
  IF loaded.err # "none" THEN Failed(loaded.err, lines)
  ELSE LET l == LoadWithDecryption(lines, loaded.key)
       IN IF l.err # "none" THEN Failed(l.err, lines)
          ELSE [err |-> "none", file |-> lines, out |-> <<>>,
                executed |-> TRUE, env |-> l.vars]

\* the record of one provider call: pre is the store as the call found it
NoCall ==
  [op |-> "none", account |-> "", arg |-> NoKey, err |-> "none", key |-> NoKey,
   created |-> FALSE, prompts |-> 0, pw |-> <<>>, lookupErr |-> "none",
   pre |-> EmptyStore]

\* the record of one command: pre is the file as the command found it
NoCmd ==
  [op |-> "none", names |-> {}, order |-> <<>>, write |-> FALSE, key |-> NoKey,
   err |-> "none", pre |-> <<>>, out |-> <<>>, executed |-> FALSE, env |-> <<>>]

(***************************************************************************)
(* The codec driven over one value, as the CLI drives it over a variable   *)
(* of an env file: cv is the value as currently stored, hist the last call *)
(* together with the call before it when that one succeeded and so handed  *)
(* its result on.                                                          *)
(***************************************************************************)
VARIABLES cv, hist

\* The provider selected for the process (provider, platform), what it keeps
\* (store), the password settings (envPassword is ENVX_PASSWORD, cfgPassword
\* the configured password) and the two most recent provider calls
\* (prevCall, then lastCall).
VARIABLES provider, platform, store, envPassword, cfgPassword, prevCall, lastCall

\* The goroutines that share one MockKeyStore: for each, where it stands in
\* its LoadOrCreateKey call (pc), the account, the key it holds and the error
\* it returned.
VARIABLES goroutines

\* The env file of the CLI, a sequence of lines, and the last command run on it.
VARIABLES envFile, lastCmd

\* The processes that run the password provider on one account at the same
\* time: for each, the call it makes (op), where it stands in it (pc), the
\* password it was given (pw), the key and the error it returned, and the
\* rank of its write to the salt file among all writes (wrote, 0: none).
VARIABLES processes

Processes == {"p1", "p2"}
IdleProcess ==
  [pc |-> "idle", op |-> "none", pw |-> <<>>, key |-> NoKey, err |-> "none",
   wrote |-> 0]
NoProcesses == [p \in Processes |-> IdleProcess]

\* The byte slices that the caller of a MockKeyStore holds: arg is the slice
\* it passed to its last SetKey, ret the slice that its last call on account
\* returned, shared tells whether ret is the very array that the map holds
\* for that account; op is the last step and before the map as that step
\* found it.
VARIABLES caller

NoCaller ==
  [op |-> "none", account |-> "", arg |-> <<>>, ret |-> <<>>,
   shared |-> FALSE, before |-> EmptyStore]

Goroutines == 1..NumGoroutines
IdleGoroutine == [pc |-> "idle", account |-> "", key |-> NoKey, err |-> "none"]
NoGoroutines == [g \in Goroutines |-> IdleGoroutine]

codecVars == <<cv, hist>>
ksVars == <<provider, platform, store, envPassword, cfgPassword, prevCall,
            lastCall, goroutines>>
cliVars == <<envFile, lastCmd>>
vars == <<cv, hist, provider, platform, store, envPassword, cfgPassword,
          prevCall, lastCall, goroutines, envFile, lastCmd, processes,
          caller>>

CodecInit ==
  /\ cv \in Plaintexts
  /\ hist = <<>>
  /\ provider = "none"
  /\ platform = "darwin"
  /\ store = EmptyStore
  /\ envPassword = <<>>
  /\ cfgPassword = <<>>
  /\ prevCall = NoCall
  /\ lastCall = NoCall
  /\ goroutines = NoGoroutines
  /\ envFile = <<>>
  /\ lastCmd = NoCmd
  /\ processes = NoProcesses
  /\ caller = NoCaller

\* the calls kept once call r has been made: r, after the call it follows
\* when that call succeeded
Remember(h, r) ==
  IF h # <<>> /\ h[Len(h)].err = "none" THEN <<h[Len(h)], r>> ELSE <<r>>

\* rand.Read runs inside encryptAES only: no nonce is drawn when Encrypt
\* returns before it
NoNonce == <<>>
NoncesDrawn(plaintext, key) ==
  IF Len(key) = KeySize /\ ~IsEncrypted(plaintext) THEN Nonces ELSE {NoNonce}

EncryptOp ==
  /\ \E k \in Keys : \E n \in NoncesDrawn(cv, k) :
       LET r == Encrypt(cv, k, n)
       IN /\ hist' = Remember(hist, [op |-> "Encrypt", key |-> k, nonce |-> n,
                                     in |-> cv, out |-> r.out, err |-> r.err,
                                     branch |-> "none"])
          /\ cv' = IF r.err = "none" THEN r.out ELSE cv
  /\ UNCHANGED <<ksVars, cliVars, processes, caller>>

DecryptOp ==
  /\ \E k \in Keys :
       LET r == Decrypt(cv, k)
       IN /\ hist' = Remember(hist, [op |-> "Decrypt", key |-> k, nonce |-> <<>>,
                                     in |-> cv, out |-> r.out, err |-> r.err,
                                     branch |-> r.branch])
          /\ cv' = IF r.err = "none" THEN r.out ELSE cv
  /\ UNCHANGED <<ksVars, cliVars, processes, caller>>

\* The envelope just sealed is damaged outside the program: its decoded bytes
\* are cut to n bytes, or the byte at position i is changed.  The record keeps
\* the key that sealed it.
TruncLens(n) == {Len(MagicPrefix), Len(MagicPrefix) + NonceSize - 1,
                 Len(MagicPrefix) + NonceSize, n - 1}
FlipPositions(n) == {Len(MagicPrefix) + 1, Len(MagicPrefix) + NonceSize + 1, n}

TamperOp ==
  /\ hist # <<>>
  /\ hist[Len(hist)].op = "Encrypt"
  /\ hist[Len(hist)].err = "none"
  /\ hist[Len(hist)].out # hist[Len(hist)].in
  /\ LET b == DecodeString(cv).bytes
     IN \/ \E n \in TruncLens(Len(b)) :
             /\ n < Len(b)
             /\ cv' = EncodeToString(Take(b, n))
        \/ \E i \in FlipPositions(Len(b)) :
             /\ i <= Len(b)
             /\ cv' = EncodeToString([b EXCEPT ![i] = (b[i] + 1) % 256])
  /\ hist' = Remember(hist, [op |-> "Tamper", key |-> hist[Len(hist)].key,
                             nonce |-> <<>>, in |-> cv, out |-> cv',
                             err |-> "none", branch |-> "none"])
  /\ UNCHANGED <<ksVars, cliVars, processes, caller>>

CodecNext == EncryptOp \/ DecryptOp \/ TamperOp

CodecSpec == CodecInit /\ [][CodecNext]_vars

(***************************************************************************)
(* The providers driven by a caller.  One provider is selected for the     *)
(* whole behaviour.  The keychain and the salt directory outlive the       *)
(* process, so they may start with content left by earlier runs or written *)
(* by other tools; the mock starts empty.                                  *)
(***************************************************************************)
KeychainStarts ==
  { EmptyStore,
    Put(EmptyStore, "alice", KeyOf(1)),
    Put(EmptyStore, "alice", ShortKey) }

SaltDirStarts ==
  { EmptyStore,
    Put(EmptyStore, "alice", SaltOf(1)),
    Put(EmptyStore, "alice", ShortSalt),
    [EmptyStore EXCEPT !["alice"] = Unreadable(SaltOf(1))] }

Statuses == {"ok", "error"}
PromptFailure == [ok |-> FALSE, text |-> <<>>]
\* what the prompt function can return; with a password configured or in the
\* environment nobody is at the terminal
PromptAnswers ==
  IF envPassword # <<>> \/ cfgPassword # <<>>
  THEN {PromptFailure}
  ELSE {[ok |-> TRUE, text |-> t] : t \in PromptPasswords} \cup {PromptFailure}

\* what the creation of a salt file meets: the salt drawn and the outcome of
\* the write.  A failed write leaves nothing of the salt behind, and an
\* account that has a salt file gets none drawn.
SaltWrites ==
  {[salt |-> sl, write |-> "ok"] : sl \in Salts}
    \cup {[salt |-> SaltOf(1), write |-> "error"]}
SaltWritesFor(files, account) ==
  IF files[account].present THEN {[salt |-> SaltOf(1), write |-> "ok"]}
  ELSE SaltWrites

KeyStoreInit ==
  /\ cv = <<>>
  /\ hist = <<>>
  /\ prevCall = NoCall
  /\ lastCall = NoCall
  /\ goroutines = NoGoroutines
  /\ envFile = <<>>
  /\ lastCmd = NoCmd
  /\ processes = NoProcesses
  /\ caller = NoCaller
  /\ provider \in {"mock", "macos", "password"}
  /\ platform \in (IF provider = "macos" THEN {"darwin", "other"} ELSE {"darwin"})
  /\ store \in (IF provider = "mock" THEN {EmptyStore}
                ELSE IF provider = "macos"
                THEN (IF platform = "darwin" THEN KeychainStarts ELSE {EmptyStore})
                ELSE SaltDirStarts)
  /\ envPassword \in (IF provider = "password" THEN {<<>>, EnvPasswordText}
                      ELSE {<<>>})
  /\ cfgPassword \in (IF provider = "password" THEN {<<>>, ConfigPasswordText}
                      ELSE {<<>>})

\* prevCall keeps the outcome of the call before the last, not the store it
\* found
Record(c, st) ==
  /\ prevCall' = [lastCall EXCEPT !.pre = EmptyStore]
  /\ lastCall' = c
  /\ store' = st
  /\ UNCHANGED <<cv, hist, provider, platform, envPassword, cfgPassword,
                 goroutines, cliVars, processes, caller>>

MockGetKey ==
  /\ provider = "mock"
  /\ \E a \in Accounts :
       LET r == MockKeyStore_GetKey(store, a)
       IN Record([NoCall EXCEPT !.op = "GetKey", !.account = a, !.err = r.err,
                                !.key = r.key, !.lookupErr = r.err,
                                !.pre = store],
                 store)

\* variant: the key goes into the map whatever its length
MockSetKey_NoSizeCheck ==
  /\ provider = "mock"
  /\ \E a \in Accounts, k \in SetKeyInputs :
       Record([NoCall EXCEPT !.op = "SetKey", !.account = a, !.arg = k,
                              !.err = "none", !.pre = store],
              Put(store, a, k))

MockSetKey ==
  /\ provider = "mock"
  /\ \E a \in Accounts, k \in SetKeyInputs :
       LET r == MockKeyStore_SetKey(store, a, k)
       IN Record([NoCall EXCEPT !.op = "SetKey", !.account = a, !.arg = k,
                                !.err = r.err, !.pre = store],
                 r.store)

MockCreateKey ==
  /\ provider = "mock"
  /\ \E a \in Accounts, rnd \in GoodKeys :
       LET r == MockKeyStore_CreateKey(store, a, rnd)
       IN Record([NoCall EXCEPT !.op = "CreateKey", !.account = a,
                                !.err = r.err, !.key = r.key,
                                !.created = TRUE, !.pre = store],
                 r.store)

MockLoadOrCreateKey ==
  /\ provider = "mock"
  /\ \E a \in Accounts, rnd \in GoodKeys :
       LET r == MockKeyStore_LoadOrCreateKey(store, a, rnd)
       IN Record([NoCall EXCEPT !.op = "LoadOrCreateKey", !.account = a,
                                !.err = r.err, !.key = r.key,
                                !.created = r.created,
                                !.lookupErr = r.lookupErr, !.pre = store],
                 r.store)

MacGetKey ==
  /\ provider = "macos"
  /\ \E a \in Accounts, lookup \in Statuses :
       LET r == macOSKeyStore_GetKey(store, platform, a, lookup)
       IN Record([NoCall EXCEPT !.op = "GetKey", !.account = a, !.err = r.err,
                                !.key = r.key, !.lookupErr = r.err,
                                !.pre = store],
                 store)

MacSetKey ==
  /\ provider = "macos"
  /\ \E a \in Accounts, k \in SetKeyInputs, write \in Statuses :
       LET r == macOSKeyStore_SetKey(store, platform, a, k, write)
       IN Record([NoCall EXCEPT !.op = "SetKey", !.account = a, !.arg = k,
                                !.err = r.err, !.pre = store],
                 r.store)

MacCreateKey ==
  /\ provider = "macos"
  /\ \E a \in Accounts, rnd \in GoodKeys, write \in Statuses :
       LET r == macOSKeyStore_CreateKey(store, platform, a, rnd, write)
       IN Record([NoCall EXCEPT !.op = "CreateKey", !.account = a,
                                !.err = r.err, !.key = r.key,
                                !.created = TRUE, !.pre = store],
                 r.store)

MacLoadOrCreateKey ==
  /\ provider = "macos"
  /\ \E a \in Accounts, rnd \in GoodKeys, lookup \in Statuses, write \in Statuses :
       LET r == macOSKeyStore_LoadOrCreateKey(store, platform, a, rnd, lookup, write)
       IN Record([NoCall EXCEPT !.op = "LoadOrCreateKey", !.account = a,
                                !.err = r.err, !.key = r.key,
                                !.created = r.created,
                                !.lookupErr = r.lookupErr, !.pre = store],
                 r.store)

\* variant: a GetKey that finds no salt file writes one
PwGetKey_CreatesSalt ==
  /\ provider = "password"
  /\ \E a \in Accounts, answer \in PromptAnswers :
       LET r == PasswordKeyStore_GetKey(store, a, envPassword, cfgPassword, answer)
       IN Record([NoCall EXCEPT !.op = "GetKey", !.account = a, !.err = r.err,
                                !.key = r.key, !.prompts = r.prompts,
                                !.pw = r.pw, !.lookupErr = r.err,
                                !.pre = store],
                 IF r.err = "SaltNotExist" THEN Put(store, a, SaltOf(1))
                 ELSE store)

PwGetKey ==
  /\ provider = "password"
  /\ \E a \in Accounts, answer \in PromptAnswers :
       LET r == PasswordKeyStore_GetKey(store, a, envPassword, cfgPassword, answer)
       IN Record([NoCall EXCEPT !.op = "GetKey", !.account = a, !.err = r.err,
                                !.key = r.key, !.prompts = r.prompts,
                                !.pw = r.pw, !.lookupErr = r.err,
                                !.pre = store],
                 store)

PwSetKey ==
  /\ provider = "password"
  /\ \E a \in Accounts, k \in SetKeyInputs :
       LET r == PasswordKeyStore_SetKey(store, a, k)
       IN Record([NoCall EXCEPT !.op = "SetKey", !.account = a, !.arg = k,
                                !.err = r.err, !.pre = store],
                 r.store)

PwCreateKey ==
  /\ provider = "password"
  /\ \E a \in Accounts, answer \in PromptAnswers, w \in SaltWrites :
       LET r == PasswordKeyStore_CreateKey(store, a, envPassword, cfgPassword,
                                           answer, w.salt, w.write)
       IN Record([NoCall EXCEPT !.op = "CreateKey", !.account = a,
                                !.err = r.err, !.key = r.key,
                                !.created = TRUE, !.prompts = r.prompts,
                                !.pw = r.pw, !.pre = store],
                 r.store)

PwLoadOrCreateKey ==
  /\ provider = "password"
  /\ \E a \in Accounts, answer \in PromptAnswers :
     \E w \in SaltWritesFor(store, a) :
       LET r == PasswordKeyStore_LoadOrCreateKey(store, a, envPassword, cfgPassword,
                                                 answer, w.salt, w.write)
       IN Record([NoCall EXCEPT !.op = "LoadOrCreateKey", !.account = a,
                                !.err = r.err, !.key = r.key,
                                !.created = r.created, !.prompts = r.prompts,
                                !.pw = r.pw, !.lookupErr = r.lookupErr,
                                !.pre = store],
                 r.store)

KeyStoreNext ==
  \/ MockGetKey \/ MockSetKey \/ MockCreateKey \/ MockLoadOrCreateKey
  \/ MacGetKey \/ MacSetKey \/ MacCreateKey \/ MacLoadOrCreateKey
  \/ PwGetKey \/ PwSetKey \/ PwCreateKey \/ PwLoadOrCreateKey

KeyStoreSpec == KeyStoreInit /\ [][KeyStoreNext]_vars

(***************************************************************************)
(* The earlier PasswordKeyStore driven by a caller at a terminal.          *)
(***************************************************************************)
EarlierInit ==
  /\ cv = <<>>
  /\ hist = <<>>
  /\ prevCall = NoCall
  /\ lastCall = NoCall
  /\ goroutines = NoGoroutines
  /\ envFile = <<>>
  /\ lastCmd = NoCmd
  /\ processes = NoProcesses
  /\ caller = NoCaller
  /\ provider = "passwordEarlier"
  /\ platform = "darwin"
  /\ store \in SaltDirStarts
  /\ envPassword = <<>>
  /\ cfgPassword = <<>>

\* what a creation meets: the salt drawn, the outcome of its write and what
\* the two calls of the prompt function return.  Nothing is asked after a
\* failed write, and no confirmation after a failed first entry.
Creations ==
  {[entry |-> e, confirm |-> c, salt |-> sl, write |-> "ok"] :
     e \in PromptAnswers \ {PromptFailure}, c \in PromptAnswers, sl \in Salts}
    \cup {[entry |-> PromptFailure, confirm |-> PromptFailure, salt |-> sl,
           write |-> "ok"] : sl \in Salts}
    \cup {[entry |-> PromptFailure, confirm |-> PromptFailure,
           salt |-> SaltOf(1), write |-> "error"]}
\* an account whose salt can be read gets its key derived from one entry
CreationsFor(files, account) ==
  IF getSalt(files, account).err = "none"
  THEN {[entry |-> e, confirm |-> PromptFailure, salt |-> SaltOf(1),
         write |-> "ok"] : e \in PromptAnswers}
  ELSE Creations

EarlierGetKey ==
  /\ provider = "passwordEarlier"
  /\ \E a \in Accounts, entry \in PromptAnswers :
       LET r == PasswordKeyStore_GetKey_Earlier(store, a, entry)
       IN Record([NoCall EXCEPT !.op = "GetKey", !.account = a, !.err = r.err,
                                !.key = r.key, !.prompts = r.prompts,
                                !.pw = r.pw, !.lookupErr = r.err,
                                !.pre = store],
                 store)

EarlierSetKey ==
  /\ provider = "passwordEarlier"
  /\ \E a \in Accounts, k \in SetKeyInputs :
       LET r == PasswordKeyStore_SetKey(store, a, k)
       IN Record([NoCall EXCEPT !.op = "SetKey", !.account = a, !.arg = k,
                                !.err = r.err, !.pre = store],
                 r.store)

EarlierCreateKey ==
  /\ provider = "passwordEarlier"
  /\ \E a \in Accounts, c \in Creations :
       LET r == PasswordKeyStore_CreateKey_Earlier(store, a, c.entry, c.confirm,
                                                   c.salt, c.write)
       IN Record([NoCall EXCEPT !.op = "CreateKey", !.account = a,
                                !.err = r.err, !.key = r.key,
                                !.created = TRUE, !.prompts = r.prompts,
                                !.pw = r.pw, !.pre = store],
                 r.store)

EarlierLoadOrCreateKey ==
  /\ provider = "passwordEarlier"
  /\ \E a \in Accounts : \E c \in CreationsFor(store, a) :
       LET r == PasswordKeyStore_LoadOrCreateKey_Earlier(store, a, c.entry,
                                                         c.confirm, c.salt,
                                                         c.write)
       IN Record([NoCall EXCEPT !.op = "LoadOrCreateKey", !.account = a,
                                !.err = r.err, !.key = r.key,
                                !.created = r.created, !.prompts = r.prompts,
                                !.pw = r.pw, !.lookupErr = r.lookupErr,
                                !.pre = store],
                 r.store)

EarlierNext ==
  EarlierGetKey \/ EarlierSetKey \/ EarlierCreateKey \/ EarlierLoadOrCreateKey

EarlierSpec == EarlierInit /\ [][EarlierNext]_vars

(***************************************************************************)
(* One MockKeyStore shared by goroutines that call LoadOrCreateKey.  The   *)
(* RWMutex makes the map read of GetKey and the map write of SetKey one    *)
(* step each; nothing is held between them, and rand.Read runs unlocked.   *)
(***************************************************************************)
ConcurrentInit ==
  /\ cv = <<>>
  /\ hist = <<>>
  /\ prevCall = NoCall
  /\ lastCall = NoCall
  /\ goroutines = NoGoroutines
  /\ envFile = <<>>
  /\ lastCmd = NoCmd
  /\ processes = NoProcesses
  /\ caller = NoCaller
  /\ provider = "mock"
  /\ platform = "darwin"
  /\ store = EmptyStore
  /\ envPassword = <<>>
  /\ cfgPassword = <<>>

Step(g, next) ==
  /\ goroutines' = [goroutines EXCEPT ![g] = next]
  /\ UNCHANGED <<cv, hist, provider, platform, envPassword, cfgPassword,
                 prevCall, lastCall, cliVars, processes, caller>>

\* goroutine g enters LoadOrCreateKey(a)
GoLoadOrCreateKey(g) ==
  /\ goroutines[g].pc = "idle"
  /\ \E a \in Accounts :
       Step(g, [goroutines[g] EXCEPT !.pc = "GetKey", !.account = a])
  /\ UNCHANGED store

\* m.GetKey(account) under the read lock, and the test of its result
GoGetKey(g) ==
  /\ goroutines[g].pc = "GetKey"
  /\ LET r == MockKeyStore_GetKey(store, goroutines[g].account)
     IN IF r.err = "none" /\ Len(r.key) = KeySize
        THEN Step(g, [goroutines[g] EXCEPT !.pc = "done", !.key = r.key])
        ELSE Step(g, [goroutines[g] EXCEPT !.pc = "rand"])
  /\ UNCHANGED store

\* rand.Read in CreateKey
GoRandRead(g) ==
  /\ goroutines[g].pc = "rand"
  /\ \E k \in GoodKeys :
       Step(g, [goroutines[g] EXCEPT !.pc = "SetKey", !.key = k])
  /\ UNCHANGED store

\* m.SetKey(account, key) under the write lock, and the return of the key
GoSetKey(g) ==
  /\ goroutines[g].pc = "SetKey"
  /\ LET s == MockKeyStore_SetKey(store, goroutines[g].account, goroutines[g].key)
     IN /\ store' = s.store
        /\ Step(g, [goroutines[g] EXCEPT
                      !.pc = "done", !.err = s.err,
                      !.key = IF s.err = "none" THEN goroutines[g].key ELSE NoKey])

ConcurrentNext ==
  \E g \in Goroutines :
    GoLoadOrCreateKey(g) \/ GoGetKey(g) \/ GoRandRead(g) \/ GoSetKey(g)

ConcurrentSpec == ConcurrentInit /\ [][ConcurrentNext]_vars

(***************************************************************************)
(* One invocation of the CLI.  The process runs one command on the env     *)
(* file and exits; the file is as the user or earlier invocations left it, *)
(* with plain values, or with values sealed earlier under a key that the   *)
(* keystore may or may not hand out again.                                 *)
(***************************************************************************)
NameA == <<65>>
NameB == <<66>>
NameC == <<67>>

\* "# c", "A=v1", "", "B=v2"
FileWithComment ==
  << <<35, 32, 99>>, NameA \o <<61, 118, 49>>, <<>>, NameB \o <<61, 118, 50>> >>
\* "A=v1", "B=a"b": a value that holds a double quote
FileWithQuote ==
  << NameA \o <<61, 118, 49>>, NameB \o <<61, 97, 34, 98>> >>
\* "A=<v1 sealed under k1>", "B=<v2 sealed under k2>", as encrypt -w writes it
SealedFile(k1, k2) ==
  formatEnv(<< Variable(NameA, Encrypt(<<118, 49>>, k1, NonceOf(1)).out),
               Variable(NameB, Encrypt(<<118, 50>>, k2, NonceOf(1)).out) >>)
\* "A=<v1 sealed under k>", "B=v2", as encrypt -w A writes it
HalfSealedFile(k) ==
  formatEnv(<< Variable(NameA, Encrypt(<<118, 49>>, k, NonceOf(1)).out),
               Variable(NameB, <<118, 50>>) >>)
\* HalfSealedFile(k) after the last four characters of the value of A were
\* lost: what is left is base64 and carries the marker
TruncatedFile(k) ==
  LET sealed == Encrypt(<<118, 49>>, k, NonceOf(1)).out
  IN formatEnv(<< Variable(NameA, Take(sealed, Len(sealed) - 4)),
                  Variable(NameB, <<118, 50>>) >>)
StartFiles ==
  {FileWithComment, FileWithQuote}
    \cup {SealedFile(k1, k2) : k1 \in GoodKeys, k2 \in GoodKeys}
    \cup {HalfSealedFile(k) : k \in GoodKeys}
    \cup {TruncatedFile(k) : k \in GoodKeys}

\* the names given to encrypt, decrypt and get
NameSets == {{}, {NameA}}
\* the parsed arguments of add and set, value "n"
KeyValueArgs ==
  { [k \in {NameA} |-> <<110>>],
    [k \in {NameC} |-> <<110>>],
    [k \in {NameA, NameC} |-> <<110>>] }
\* the orders in which a map of names can be ranged over
Orders(names) ==
  {o \in UNION {[1..Cardinality(names) -> names]} :
     \A i, j \in 1..Cardinality(names) : i # j => o[i] # o[j]}

KeyLoads ==
  {[err |-> "none", key |-> k] : k \in GoodKeys}
    \cup {[err |-> "KeyLoadFailed", key |-> NoKey]}

CliInit ==
  /\ cv = <<>>
  /\ hist = <<>>
  /\ provider = "none"
  /\ platform = "darwin"
  /\ store = EmptyStore
  /\ envPassword = <<>>
  /\ cfgPassword = <<>>
  /\ prevCall = NoCall
  /\ lastCall = NoCall
  /\ goroutines = NoGoroutines
  /\ envFile \in StartFiles
  /\ lastCmd = NoCmd
  /\ processes = NoProcesses
  /\ caller = NoCaller

\* the command and its result are recorded, the file is as the command left it
Ran(c, r) ==
  /\ lastCmd.op = "none"
  /\ envFile' = r.file
  /\ lastCmd' = [c EXCEPT !.err = r.err, !.pre = envFile, !.out = r.out,
                          !.executed = r.executed, !.env = r.env]
  /\ UNCHANGED <<cv, hist, ksVars, processes, caller>>

EncryptCmd ==
  \E l \in KeyLoads, args \in NameSets, w \in BOOLEAN, n \in 1..NumNonces :
    Ran([NoCmd EXCEPT !.op = "encrypt", !.names = args, !.write = w,
                      !.key = l.key],
        encryptCmd(envFile, l, args, w, n))

DecryptCmd ==
  \E l \in KeyLoads, args \in NameSets, w \in BOOLEAN :
    Ran([NoCmd EXCEPT !.op = "decrypt", !.names = args, !.write = w,
                      !.key = l.key],
        decryptCmd(envFile, l, args, w))

SetCmd ==
  \E l \in KeyLoads, kv \in KeyValueArgs, p \in BOOLEAN, n \in 1..NumNonces :
    \E o \in Orders(DOMAIN kv) :
      Ran([NoCmd EXCEPT !.op = "set", !.names = DOMAIN kv, !.write = ~p,
                        !.key = l.key, !.order = o],
          setCmdFn(envFile, l, kv, o, p, n))

AddCmd ==
  \E l \in KeyLoads, kv \in KeyValueArgs, p \in BOOLEAN, n \in 1..NumNonces :
    \E o \in Orders(DOMAIN kv) :
      Ran([NoCmd EXCEPT !.op = "add", !.names = DOMAIN kv, !.write = ~p,
                        !.key = l.key, !.order = o],
          addCmdFn(envFile, l, kv, o, p, n))

GetCmd ==
  \E l \in KeyLoads, args \in NameSets :
    Ran([NoCmd EXCEPT !.op = "get", !.names = args, !.key = l.key],
        getCmdFn(envFile, l, args))

RunCmd ==
  \E l \in KeyLoads :
    Ran([NoCmd EXCEPT !.op = "run", !.key = l.key], run(envFile, l))

CliNext == EncryptCmd \/ DecryptCmd \/ SetCmd \/ AddCmd \/ GetCmd \/ RunCmd

CliSpec == CliInit /\ [][CliNext]_vars

(***************************************************************************)
(* Two processes that call the password provider for the same account at   *)
(* the same time.  They share nothing but the salt file; os.WriteFile is   *)
(* an open that truncates followed by a write at the start of the file,    *)
(* and the other process can run between the two, as it can between the    *)
(* ReadFile and the Stat of LoadOrCreateKey.                               *)
(***************************************************************************)
RaceAccount == "alice"
\* rand.Read gives each process a salt of its own
ProcessSalt(p) == IF p = "p1" THEN SaltOf(1) ELSE SaltOf(2)

\* variant: the bytes are appended to what the file holds
WriteAtStart_Append(data, bytes) == data \o bytes

\* the write of a file opened without O_APPEND: at offset 0, over what is there
WriteAtStart(data, bytes) == bytes \o Drop(data, Len(bytes))

RaceInit ==
  /\ cv = <<>>
  /\ hist = <<>>
  /\ provider = "password"
  /\ platform = "darwin"
  /\ store \in {EmptyStore, Put(EmptyStore, RaceAccount, SaltOf(NumSalts))}
  /\ envPassword = <<>>
  /\ cfgPassword = <<>>
  /\ prevCall = NoCall
  /\ lastCall = NoCall
  /\ goroutines = NoGoroutines
  /\ envFile = <<>>
  /\ lastCmd = NoCmd
  /\ processes = NoProcesses
  /\ caller = NoCaller

\* process p moves on: its record becomes next, the salt files become files
Advance(p, next, files) ==
  /\ processes' = [processes EXCEPT ![p] = next]
  /\ store' = files
  /\ UNCHANGED <<cv, hist, provider, platform, envPassword, cfgPassword,
                 prevCall, lastCall, goroutines, cliVars, caller>>

Exits(p, key, err) ==
  [processes[p] EXCEPT !.pc = "done", !.key = key, !.err = err]

\* the process is started with CreateKey or with LoadOrCreateKey
Enter(p) ==
  /\ processes[p].pc = "idle"
  /\ \E op \in {"CreateKey", "LoadOrCreateKey"} :
       Advance(p, [processes[p] EXCEPT
                     !.op = op,
                     !.pc = IF op = "CreateKey" THEN "setSalt" ELSE "getSalt"],
               store)

\* LoadOrCreateKey reads the salt file
ReadSalt(p) ==
  /\ processes[p].pc = "getSalt"
  /\ Advance(p, [processes[p] EXCEPT
                   !.pc = IF getSalt(store, RaceAccount).err = "none"
                          THEN "GetKey" ELSE "Stat"],
             store)

\* LoadOrCreateKey, after a failed read, asks whether the file exists
StatSalt(p) ==
  /\ processes[p].pc = "Stat"
  /\ Advance(p, IF ~store[RaceAccount].present
                THEN [processes[p] EXCEPT !.pc = "setSalt"]
                ELSE Exits(p, NoKey, "SaltUnreadable"),
             store)

\* setSalt, first half: MkdirAll and the open of WriteFile, which truncates
OpenSalt(p) ==
  /\ processes[p].pc = "setSalt"
  /\ \E outcome \in {"ok", "error"} :
       IF outcome = "ok"
       THEN Advance(p, [processes[p] EXCEPT !.pc = "Write"],
                    Put(store, RaceAccount, <<>>))
       ELSE Advance(p, Exits(p, NoKey, "WriteFailed"), store)

\* setSalt, second half: the write of WriteFile
WriteSalt(p) ==
  /\ processes[p].pc = "Write"
  /\ Advance(p, [processes[p] EXCEPT
                   !.pc = "getPassword",
                   !.wrote = 1 + Cardinality({q \in Processes :
                                                processes[q].wrote > 0})],
             Put(store, RaceAccount,
                 WriteAtStart(store[RaceAccount].data, ProcessSalt(p))))

\* CreateKey after setSalt: the password, then the key from its own salt
DeriveNew(p) ==
  /\ processes[p].pc = "getPassword"
  /\ \E answer \in PromptAnswers :
       LET pw == getPassword(envPassword, cfgPassword, answer)
       IN Advance(p, IF pw.err # "none" THEN Exits(p, NoKey, pw.err)
                     ELSE [Exits(p, pbkdf2Key(pw.password, ProcessSalt(p),
                                                 DefaultIterations), "none")
                             EXCEPT !.pw = pw.password],
                  store)

\* LoadOrCreateKey that found a salt: GetKey, which reads the file again
DeriveStored(p) ==
  /\ processes[p].pc = "GetKey"
  /\ \E answer \in PromptAnswers :
       LET g == PasswordKeyStore_GetKey(store, RaceAccount, envPassword,
                                        cfgPassword, answer)
       IN Advance(p, [Exits(p, g.key, g.err) EXCEPT !.pw = g.pw], store)

RaceNext ==
  \E p \in Processes :
    \/ Enter(p)
    \/ ReadSalt(p)
    \/ StatSalt(p)
    \/ OpenSalt(p)
    \/ WriteSalt(p)
    \/ DeriveNew(p)
    \/ DeriveStored(p)

RaceSpec == RaceInit /\ [][RaceNext]_vars

(***************************************************************************)
(* The MockKeyStore with the slices of its caller.  A Go slice is a view   *)
(* of an array: a write through the slice is a write to the array, and     *)
(* whoever holds another slice of the same array sees it.  SetKey copies   *)
(* the key into a new array, GetKey returns the slice that is in the map.  *)
(***************************************************************************)
\* a write through a slice: its first byte is set to 0
Overwrite(s) == [s EXCEPT ![1] = 0]

AliasInit ==
  /\ cv = <<>>
  /\ hist = <<>>
  /\ provider = "mock"
  /\ platform = "darwin"
  /\ store = EmptyStore
  /\ envPassword = <<>>
  /\ cfgPassword = <<>>
  /\ prevCall = NoCall
  /\ lastCall = NoCall
  /\ goroutines = NoGoroutines
  /\ envFile = <<>>
  /\ lastCmd = NoCmd
  /\ processes = NoProcesses
  /\ caller = NoCaller

\* the map becomes keys and the caller's record next
Holds(next, keys) ==
  /\ caller' = [next EXCEPT !.before = store]
  /\ store' = keys
  /\ UNCHANGED <<cv, hist, provider, platform, envPassword, cfgPassword,
                 prevCall, lastCall, goroutines, cliVars, processes>>

\* a map entry that is replaced is a new array: ret of that account is not
\* the map's array any more
Unshared(a) == IF caller.account = a THEN FALSE ELSE caller.shared

\* GetKey hands out the slice of the map
AliasGetKey ==
  \E a \in Accounts :
    LET r == MockKeyStore_GetKey(store, a)
    IN Holds([caller EXCEPT !.op = "GetKey", !.account = a, !.ret = r.key,
                            !.shared = (r.err = "none")],
             store)

\* SetKey stores a copy of the caller's slice
AliasSetKey ==
  \E a \in Accounts, k \in SetKeyInputs :
    LET r == MockKeyStore_SetKey(store, a, k)
    IN Holds([caller EXCEPT !.op = "SetKey", !.arg = k,
                            !.shared = IF r.err = "none" THEN Unshared(a)
                                       ELSE caller.shared],
             r.store)

\* CreateKey returns the slice it filled itself; the map holds a copy
AliasCreateKey ==
  \E a \in Accounts, rnd \in GoodKeys :
    LET r == MockKeyStore_CreateKey(store, a, rnd)
    IN Holds([caller EXCEPT !.op = "CreateKey", !.account = a, !.ret = r.key,
                            !.shared = FALSE],
             r.store)

\* LoadOrCreateKey returns what GetKey or what CreateKey returned
AliasLoadOrCreateKey ==
  \E a \in Accounts, rnd \in GoodKeys :
    LET r == MockKeyStore_LoadOrCreateKey(store, a, rnd)
    IN Holds([caller EXCEPT !.op = "LoadOrCreateKey", !.account = a,
                            !.ret = r.key,
                            !.shared = (r.err = "none" /\ ~r.created)],
             r.store)

\* the caller writes through the slice it passed to SetKey
MutateArgument ==
  /\ caller.arg # <<>>
  /\ Holds([caller EXCEPT !.op = "MutateArgument", !.arg = Overwrite(caller.arg)],
           store)

\* the caller writes through the slice that its last call returned
MutateReturned ==
  /\ caller.ret # <<>>
  /\ Holds([caller EXCEPT !.op = "MutateReturned", !.ret = Overwrite(caller.ret)],
           IF caller.shared
           THEN Put(store, caller.account, Overwrite(caller.ret))
           ELSE store)

AliasNext ==
  \/ AliasGetKey
  \/ AliasSetKey
  \/ AliasCreateKey
  \/ AliasLoadOrCreateKey
  \/ MutateArgument
  \/ MutateReturned

AliasSpec == AliasInit /\ [][AliasNext]_vars

(***************************************************************************)
(* Properties of the codec.                                                *)
(***************************************************************************)
Steps == 1..Len(hist)
Pairs == 1..(Len(hist) - 1)

\* call i encrypts under a 32-byte key and call i+1 decrypts its result under
\* the same key
EncThenDec(i) ==
  /\ hist[i].op = "Encrypt"
  /\ Len(hist[i].key) = KeySize
  /\ hist[i + 1].op = "Decrypt"
  /\ hist[i + 1].key = hist[i].key

\* call i encrypts under a 32-byte key and call i+1 decrypts its result under
\* a different 32-byte key
EncThenDecOtherKey(i) ==
  /\ hist[i].op = "Encrypt"
  /\ Len(hist[i].key) = KeySize
  /\ hist[i + 1].op = "Decrypt"
  /\ Len(hist[i + 1].key) = KeySize
  /\ hist[i + 1].key # hist[i].key

RoundTrips(i) ==
  /\ hist[i].err = "none"
  /\ hist[i + 1].in = hist[i].out
  /\ hist[i + 1].err = "none"
  /\ hist[i + 1].out = hist[i].in

\* C1, as stated: for every plaintext p, the marker-bearing ones included, and
\* every 32-byte key k, Decrypt(Encrypt(p, k), k) succeeds and returns p.
C1_RoundTripEveryPlaintext ==
  \A i \in Pairs : EncThenDec(i) => RoundTrips(i)

\* C1, amended: for every plaintext p that IsEncrypted does not recognise as
\* an envelope and every 32-byte key k, Decrypt(Encrypt(p, k), k) succeeds and
\* returns exactly p.
C1_RoundTripUnlessEnveloped ==
  \A i \in Pairs :
    (EncThenDec(i) /\ ~IsEncrypted(hist[i].in)) => RoundTrips(i)

\* a base64 text whose decoding is exactly the marker went through Encrypt and
\* Decrypt under one key and came back
C1_Witness ==
  \E i \in Pairs :
    /\ EncThenDec(i)
    /\ hist[i].in = EncodeToString(MagicPrefix)
    /\ hist[i].out # hist[i].in
    /\ RoundTrips(i)

\* C2: IsEncrypted agrees with the branch taken by Decrypt: under a 32-byte
\* key, IsEncrypted(v) = FALSE implies that Decrypt returns v unchanged without
\* error, and IsEncrypted(v) = TRUE implies that Decrypt takes the
\* authenticated-decryption branch.
C2_IsEncryptedAgreesWithDecrypt ==
  \A i \in Steps :
    (hist[i].op = "Decrypt" /\ Len(hist[i].key) = KeySize) =>
      /\ IsEncrypted(hist[i].in) \in BOOLEAN
      /\ IsEncrypted(hist[i].in) => hist[i].branch = "decryptAES"
      /\ ~IsEncrypted(hist[i].in) =>
           (hist[i].err = "none" /\ hist[i].out = hist[i].in)

\* C3: once a value has been encrypted under a 32-byte key k, every further
\* Encrypt pass under k returns it unchanged, whatever nonce is drawn.
C3_EncryptIdempotent ==
  \A i \in Steps : \A j \in Steps :
    (/\ i < j
     /\ \A m \in i..j : /\ hist[m].op = "Encrypt"
                        /\ hist[m].key = hist[i].key
     /\ Len(hist[i].key) = KeySize) =>
       (hist[j].err = "none" /\ hist[j].out = hist[i].out)

\* a plaintext was really encrypted, then passed through Encrypt again under
\* the same key, and stayed as it was
C3_Witness ==
  \E i \in Pairs :
    /\ hist[i].op = "Encrypt" /\ hist[i + 1].op = "Encrypt"
    /\ Len(hist[i].key) = KeySize
    /\ hist[i + 1].key = hist[i].key
    /\ hist[i].out # hist[i].in
    /\ hist[i + 1].in = hist[i].out
    /\ hist[i + 1].out = hist[i].out

\* v is not valid base64, or its decoded bytes do not start with the marker
NotMarked(v) ==
  \/ ~DecodeString(v).ok
  \/ ~HasPrefix(DecodeString(v).bytes, MagicPrefix)

\* C4: under a 32-byte key, Decrypt returns unchanged and without error every
\* value that is not valid base64 or whose decoded bytes do not start with the
\* marker.
C4_PassThrough ==
  \A i \in Steps :
    (/\ hist[i].op = "Decrypt"
     /\ Len(hist[i].key) = KeySize
     /\ NotMarked(hist[i].in)) =>
       (hist[i].err = "none" /\ hist[i].out = hist[i].in)

\* valid base64 without the marker was given to Decrypt and came back as is
C4_Witness ==
  \E i \in Steps :
    /\ hist[i].op = "Decrypt"
    /\ Len(hist[i].key) = KeySize
    /\ hist[i].in = EncodeToString(TextHello)
    /\ hist[i].out = hist[i].in

\* C5: Encrypt and Decrypt with a key that is not 32 bytes long return the
\* invalid-key-size error and an empty result for every input; nothing is
\* passed through.
C5_KeySizeEnforced ==
  \A i \in Steps :
    (hist[i].op \in {"Encrypt", "Decrypt"} /\ Len(hist[i].key) # KeySize) =>
      (hist[i].err = "InvalidKeySize" /\ hist[i].out = <<>>)

\* a value was sealed under a 32-byte key, and the envelope then met Encrypt
\* with a 16-byte key, which refused it instead of passing it through
C5_Witness ==
  \E i \in Pairs :
    /\ hist[i].op = "Encrypt"
    /\ hist[i].out # hist[i].in
    /\ hist[i + 1].op = "Encrypt"
    /\ hist[i + 1].in = hist[i].out
    /\ Len(hist[i + 1].key) = 16
    /\ IsEncrypted(hist[i + 1].in)
    /\ hist[i + 1].err = "InvalidKeySize"
    /\ hist[i + 1].out = <<>>

DecryptFails(i) == hist[i].err = "DecryptionFailed" /\ hist[i].out = <<>>

\* C6, as stated: for every plaintext p and different 32-byte keys k1, k2,
\* Decrypt(Encrypt(p, k1), k2) returns a decryption error and no plaintext.
C6_CrossKeyAlwaysFails ==
  \A i \in Pairs : EncThenDecOtherKey(i) => DecryptFails(i + 1)

\* C6, amended: for different 32-byte keys k1, k2 and every plaintext p that
\* is not itself an envelope that decrypts under k2,
\* Decrypt(Encrypt(p, k1), k2) returns a decryption error and no plaintext.
C6_CrossKeyFailsUnlessSealedUnderK2 ==
  \A i \in Pairs :
    (/\ EncThenDecOtherKey(i)
     /\ ~(IsEncrypted(hist[i].in)
          /\ Decrypt(hist[i].in, hist[i + 1].key).err = "none")) =>
       DecryptFails(i + 1)

\* a plaintext was really encrypted under one key and the result failed to
\* decrypt under another
C6_Witness ==
  \E i \in Pairs :
    /\ EncThenDecOtherKey(i)
    /\ hist[i].out # hist[i].in
    /\ hist[i + 1].in = hist[i].out
    /\ DecryptFails(i + 1)

\* the decoded bytes of v start with the marker
Marked(v) ==
  DecodeString(v).ok /\ HasPrefix(DecodeString(v).bytes, MagicPrefix)

\* C7: when the decoded bytes start with the marker and the remainder is
\* shorter than the nonce, or the envelope was cut or altered after it was
\* sealed, Decrypt under a 32-byte key returns a decryption error and the
\* empty string.
C7_DamagedEnvelopeFails ==
  \A i \in Steps :
    (/\ hist[i].op = "Decrypt"
     /\ Len(hist[i].key) = KeySize
     /\ Marked(hist[i].in)
     /\ \/ Len(DecodeString(hist[i].in).bytes) < Len(MagicPrefix) + NonceSize
        \/ (i > 1 /\ hist[i - 1].op = "Tamper")) =>
       DecryptFails(i)

\* an envelope with one byte changed, still of full length, was given to
\* Decrypt under the key that sealed it, and was refused
C7_Witness ==
  \E i \in Steps :
    /\ i > 1
    /\ hist[i].op = "Decrypt"
    /\ hist[i - 1].op = "Tamper"
    /\ Len(hist[i - 1].out) = Len(hist[i - 1].in)
    /\ hist[i].in = hist[i - 1].out
    /\ hist[i].key = hist[i - 1].key
    /\ Len(hist[i].key) = KeySize
    /\ DecryptFails(i)

(***************************************************************************)
(* Properties of the key providers.                                        *)
(***************************************************************************)
\* the answers by which a lookup says that the account has nothing stored
NotFoundErrs == {"KeyNotFound", "NotFound", "SaltNotExist"}

\* the lookup of call c was answered regularly: found or not found
LookupAnswered(c) == c.lookupErr \in NotFoundErrs \cup {"none"}

\* C8: a LoadOrCreateKey that finds nothing for the account and succeeds has
\* created a 32-byte key, now stored; and after a successful LoadOrCreateKey,
\* a further LoadOrCreateKey or a GetKey for the same account, with the lookup
\* answered regularly and the same password, returns the identical key and
\* creates nothing.
C8_ProvisioningIdempotent ==
  /\ (/\ lastCall.op = "LoadOrCreateKey"
      /\ lastCall.err = "none"
      /\ ~lastCall.pre[lastCall.account].present) =>
        /\ lastCall.created
        /\ Len(lastCall.key) = KeySize
        /\ store[lastCall.account].present
  /\ (/\ prevCall.op = "LoadOrCreateKey"
      /\ prevCall.err = "none"
      /\ lastCall.op \in {"LoadOrCreateKey", "GetKey"}
      /\ lastCall.account = prevCall.account
      /\ LookupAnswered(lastCall)
      /\ lastCall.pw = prevCall.pw) =>
        /\ lastCall.err = "none"
        /\ lastCall.key = prevCall.key
        /\ Len(lastCall.key) = KeySize
        /\ ~lastCall.created
        /\ store = lastCall.pre

\* a first LoadOrCreateKey created the key of an account and a second one
\* loaded that same key
C8_Witness ==
  /\ prevCall.op = "LoadOrCreateKey"
  /\ prevCall.err = "none"
  /\ prevCall.created
  /\ prevCall.lookupErr \in NotFoundErrs
  /\ lastCall.op = "LoadOrCreateKey"
  /\ lastCall.account = prevCall.account
  /\ ~lastCall.created
  /\ Len(lastCall.key) = KeySize
  /\ lastCall.key = prevCall.key

\* the call found a record for its account that is not 32 bytes long
FoundMalformedKey(c) ==
  /\ provider \in {"mock", "macos"}
  /\ c.pre[c.account].present
  /\ Len(c.pre[c.account].data) # KeySize

C10_LookupFailurePropagates ==
  (lastCall.op = "LoadOrCreateKey" /\ ~LookupAnswered(lastCall)) =>
    (lastCall.err # "none" /\ lastCall.key = NoKey /\ store = lastCall.pre)

\* the call found a readable 32-byte record for its account: a key in the map
\* or the keychain, a salt in the salt file
FoundUsableRecord(c) ==
  /\ c.pre[c.account].present
  /\ c.pre[c.account].readable
  /\ Len(c.pre[c.account].data) = KeySize

\* C11: CreateKey never replaces an existing readable key or salt: when the
\* account already has one, the stored record is the same after the call.
C11_CreateKeyNeverReplaces ==
  (lastCall.op = "CreateKey" /\ FoundUsableRecord(lastCall)) =>
    store[lastCall.account] = lastCall.pre[lastCall.account]

\* C12: in the password provider a readable 32-byte salt file never changes,
\* whatever operation runs, and LoadOrCreateKey on a salt file that exists but
\* cannot be read or has the wrong size returns an error and writes no salt.
C12_SaltLifecycle ==
  (provider = "password" /\ lastCall.op # "none") =>
    /\ \A a \in Accounts :
         (/\ lastCall.pre[a].present
          /\ lastCall.pre[a].readable
          /\ Len(lastCall.pre[a].data) = SaltSize) =>
            store[a] = lastCall.pre[a]
    /\ (/\ lastCall.op = "LoadOrCreateKey"
        /\ lastCall.pre[lastCall.account].present
        /\ ~FoundUsableRecord(lastCall)) =>
          /\ lastCall.err # "none"
          /\ lastCall.key = NoKey
          /\ store = lastCall.pre

(***************************************************************************)
(* Properties of the earlier PasswordKeyStore.                             *)
(***************************************************************************)
\* the creations in which both entries are made and differ
MismatchedCreations ==
  {c \in Creations :
     c.write = "ok" /\ c.entry.ok /\ c.confirm.ok /\ c.entry.text # c.confirm.text}

\* C13: a CreateKey whose confirmation entry differs from the first entry
\* returns the password-mismatch error and no key and leaves the salt it wrote
\* in place; the next creation attempt for the account, with matching entries,
\* succeeds and derives its key from that same salt, which is not rotated.
C13_MismatchKeepsSalt ==
  /\ \A a \in Accounts : \A c \in MismatchedCreations :
       LET r == PasswordKeyStore_CreateKey_Earlier(store, a, c.entry, c.confirm,
                                                   c.salt, c.write)
       IN /\ r.err = "PasswordMismatch"
          /\ r.key = NoKey
          /\ r.store[a] = Item(c.salt)
  /\ (/\ prevCall.created
      /\ prevCall.err = "PasswordMismatch"
      /\ lastCall.created
      /\ lastCall.account = prevCall.account
      /\ lastCall.err = "none") =>
        /\ store[lastCall.account] = lastCall.pre[lastCall.account]
        /\ lastCall.key = pbkdf2Key(lastCall.pw,
                                    lastCall.pre[lastCall.account].data,
                                    DefaultIterations)

(***************************************************************************)
(* Properties of the current PasswordKeyStore.                             *)
(***************************************************************************)
\* the last call ran the password provider's key derivation path
PasswordCall ==
  /\ provider = "password"
  /\ lastCall.op \in {"GetKey", "CreateKey", "LoadOrCreateKey"}

\* the last call took its password from first when that is set, else from
\* second when that is set, and asked the prompt function only when neither
\* is set; a key it returned is derived from that password and the account's
\* salt
ResolvedInOrder(first, second) ==
  LET chosen == IF first # <<>> THEN first ELSE second
  IN /\ chosen # <<>> =>
          /\ lastCall.prompts = 0
          /\ lastCall.pw \in {<<>>, chosen}
          /\ lastCall.err = "none" =>
               /\ lastCall.pw = chosen
               /\ lastCall.key = pbkdf2Key(chosen, store[lastCall.account].data,
                                           DefaultIterations)
     /\ lastCall.prompts > 0 => chosen = <<>>

\* C14, as stated: the explicit password comes first, then ENVX_PASSWORD, then
\* the prompt; with both set the key is derived from the explicit password.
C14_ExplicitPasswordFirst ==
  PasswordCall => ResolvedInOrder(cfgPassword, envPassword)

\* C14, amended: ENVX_PASSWORD comes first, then the explicit password, then
\* the prompt; with both set the key is derived from ENVX_PASSWORD, and the
\* prompt function is invoked only when neither is set.
C14_EnvPasswordFirst ==
  PasswordCall => ResolvedInOrder(envPassword, cfgPassword)

\* with both passwords set, a key was derived from ENVX_PASSWORD and differs
\* from the one the explicit password gives
C14_Witness ==
  /\ PasswordCall
  /\ envPassword # <<>>
  /\ cfgPassword # <<>>
  /\ lastCall.err = "none"
  /\ lastCall.prompts = 0
  /\ lastCall.key = pbkdf2Key(envPassword, store[lastCall.account].data,
                              DefaultIterations)
  /\ lastCall.key # pbkdf2Key(cfgPassword, store[lastCall.account].data,
                              DefaultIterations)

(***************************************************************************)
(* Properties of the MockKeyStore under concurrent use.                    *)
(***************************************************************************)
\* goroutine g has returned from LoadOrCreateKey(a)
Returned(g, a) == goroutines[g].pc = "done" /\ goroutines[g].account = a

\* C15: when several goroutines call LoadOrCreateKey for the same previously
\* unknown account at the same time, every call returns the same key, and
\* once all have returned that key is the one stored for the account.
C15_ConcurrentCallsAgree ==
  \A a \in Accounts :
    /\ \A g \in Goroutines : \A h \in Goroutines :
         (Returned(g, a) /\ Returned(h, a)) =>
           /\ goroutines[g].err = "none"
           /\ goroutines[g].key = goroutines[h].key
    /\ \A g \in Goroutines :
         (/\ Returned(g, a)
          /\ \A h \in Goroutines :
               goroutines[h].account = a => goroutines[h].pc = "done") =>
            store[a] = Item(goroutines[g].key)

(***************************************************************************)
(* Properties of the key providers, continued.                             *)
(***************************************************************************)
\* the errors by which a call reports that its surroundings failed: the
\* credential store, the platform, the terminal
SurroundingErrs == {"Unhandled", "PlatformUnavailable", "PromptFailed"}

\* C16: GetKey for an account with no key or no salt file returns an error
\* and no key, the not-found error unless the credential store, the platform
\* or the prompt failed, and every stored key and salt file is as before; a
\* following GetKey for the account reports the same.
C16_GetKeyCreatesNothing ==
  /\ (lastCall.op = "GetKey" /\ ~lastCall.pre[lastCall.account].present) =>
       /\ lastCall.err \in NotFoundErrs \cup SurroundingErrs
       /\ provider = "mock" => lastCall.err = "KeyNotFound"
       /\ lastCall.key = NoKey
       /\ store = lastCall.pre
  /\ \A a \in Accounts :
       ~store[a].present =>
         /\ (provider = "macos" /\ platform = "darwin") =>
              macOSKeyStore_GetKey(store, platform, a, "ok").err = "NotFound"
         /\ provider = "password" =>
              \A answer \in PromptAnswers :
                (answer.ok \/ envPassword # <<>> \/ cfgPassword # <<>>) =>
                  PasswordKeyStore_GetKey(store, a, envPassword, cfgPassword,
                                          answer).err = "SaltNotExist"
  /\ (/\ prevCall.op = "GetKey"
      /\ prevCall.err \in NotFoundErrs
      /\ lastCall.op = "GetKey"
      /\ lastCall.account = prevCall.account) =>
        /\ lastCall.err \in NotFoundErrs \cup SurroundingErrs
        /\ lastCall.key = NoKey
        /\ ~store[lastCall.account].present

\* the password provider asked for the password, found no salt file, and did
\* so again on the next GetKey: there is still no salt file
C16_Witness ==
  /\ provider = "password"
  /\ prevCall.op = "GetKey"
  /\ prevCall.err = "SaltNotExist"
  /\ lastCall.op = "GetKey"
  /\ lastCall.account = prevCall.account
  /\ lastCall.prompts = 1
  /\ lastCall.err = "SaltNotExist"
  /\ ~store[lastCall.account].present

\* the last call is a SetKey with a key that is not 32 bytes long
WrongSizeSetKey == lastCall.op = "SetKey" /\ Len(lastCall.arg) # KeySize

\* C17, as stated: SetKey with a key that is not 32 bytes long fails with the
\* invalid-key-size error on every provider and leaves every stored key
\* unchanged.
C17_WrongSizeRejectedEverywhere ==
  WrongSizeSetKey => (lastCall.err = "InvalidKeySize" /\ store = lastCall.pre)

\* C17, amended: SetKey with a key that is not 32 bytes long fails with the
\* invalid-key-size error on the mock and secure-storage providers and with
\* the unsupported-operation error on the password provider; what is stored
\* for the account and for every other account is unchanged.
C17_WrongSizeRejected ==
  WrongSizeSetKey =>
    /\ provider \in {"mock", "macos"} => lastCall.err = "InvalidKeySize"
    /\ provider = "password" => lastCall.err = "Unsupported"
    /\ store = lastCall.pre

\* a 16-byte key was refused for an account that holds a key while another
\* account holds one too, and both are still there
C17_Witness ==
  /\ provider = "mock"
  /\ WrongSizeSetKey
  /\ Len(lastCall.arg) = 16
  /\ lastCall.err = "InvalidKeySize"
  /\ \A a \in Accounts : store[a].present /\ store[a] = lastCall.pre[a]

\* C18: after a successful SetKey(account, k) with a 32-byte k on the mock or
\* secure-storage provider, the store holds k for the account in place of
\* whatever it held, the keys of the other accounts are as before, and
\* GetKey(account) returns exactly k.
C18_SetKeyThenGetKey ==
  /\ (/\ provider \in {"mock", "macos"}
      /\ lastCall.op = "SetKey"
      /\ lastCall.err = "none") =>
        /\ Len(lastCall.arg) = KeySize
        /\ store = Put(lastCall.pre, lastCall.account, lastCall.arg)
        /\ provider = "mock" =>
             MockKeyStore_GetKey(store, lastCall.account)
               = [err |-> "none", key |-> lastCall.arg]
        /\ provider = "macos" =>
             macOSKeyStore_GetKey(store, platform, lastCall.account, "ok")
               = [err |-> "none", key |-> lastCall.arg]
  /\ (/\ provider \in {"mock", "macos"}
      /\ prevCall.op = "SetKey"
      /\ prevCall.err = "none"
      /\ lastCall.op = "GetKey"
      /\ lastCall.account = prevCall.account
      /\ LookupAnswered(lastCall)) =>
        /\ lastCall.err = "none"
        /\ lastCall.key = prevCall.arg
        /\ store = lastCall.pre

\* a key was set for an account of the keychain and the next GetKey returned
\* it, while the other account holds another key
C18_Witness ==
  /\ provider = "macos"
  /\ prevCall.op = "SetKey"
  /\ prevCall.err = "none"
  /\ lastCall.op = "GetKey"
  /\ lastCall.account = prevCall.account
  /\ lastCall.err = "none"
  /\ lastCall.key = prevCall.arg
  /\ \E b \in Accounts :
       /\ b # lastCall.account
       /\ store[b].present
       /\ store[b].data # lastCall.key

\* C19: SetKey of the password provider fails with the unsupported-operation
\* error for every account and every key, whatever the key's length, and no
\* salt file is created or changed.
C19_PasswordSetKeyUnsupported ==
  (provider = "password" /\ lastCall.op = "SetKey") =>
    (lastCall.err = "Unsupported" /\ store = lastCall.pre)

\* a 32-byte key was refused for an account that has a salt file, and the
\* salt file is as it was
C19_Witness ==
  /\ provider = "password"
  /\ lastCall.op = "SetKey"
  /\ Len(lastCall.arg) = KeySize
  /\ lastCall.err = "Unsupported"
  /\ lastCall.pre[lastCall.account].present
  /\ store = lastCall.pre

\* two GetKey calls in a row for one account of the password provider, both
\* successful; no call in between, so both read the same salt file
TwoDerivations ==
  /\ provider = "password"
  /\ prevCall.op = "GetKey"
  /\ prevCall.err = "none"
  /\ lastCall.op = "GetKey"
  /\ lastCall.err = "none"
  /\ lastCall.account = prevCall.account

\* C20: with the same password and the same persisted salt GetKey returns the
\* same 32-byte key on every call; with the same salt and a different
\* password it returns a different key.
C20_DerivationDeterministic ==
  TwoDerivations =>
    /\ Len(prevCall.key) = KeySize
    /\ Len(lastCall.key) = KeySize
    /\ store = lastCall.pre
    /\ lastCall.pw = prevCall.pw => lastCall.key = prevCall.key
    /\ lastCall.pw # prevCall.pw => lastCall.key # prevCall.key

\* two different passwords were entered for one salt and gave two different
\* 32-byte keys
C20_Witness ==
  /\ TwoDerivations
  /\ lastCall.pw # prevCall.pw
  /\ Len(lastCall.key) = KeySize
  /\ lastCall.key # prevCall.key

(***************************************************************************)
(* Properties of the keychain provider where no keychain is built in.      *)
(***************************************************************************)
\* the call was made with valid arguments: SetKey was handed a 32-byte key
ValidArguments(c) ==
  /\ c.op # "none"
  /\ c.op = "SetKey" => Len(c.arg) = KeySize

\* C21: on a platform other than darwin every operation of the keychain
\* provider called with valid arguments returns the "not available on this
\* platform" error, returns no key and stores nothing.
C21_NoKeychainFailsExplicitly ==
  (provider = "macos" /\ platform # "darwin") =>
    /\ ValidArguments(lastCall) =>
         /\ lastCall.err = "PlatformUnavailable"
         /\ lastCall.key = NoKey
         /\ store = lastCall.pre
    /\ ValidArguments(prevCall) =>
         /\ prevCall.err = "PlatformUnavailable"
         /\ prevCall.key = NoKey

\* without a keychain a SetKey of a 32-byte key was refused and then a
\* LoadOrCreateKey was refused as well
C21_Witness ==
  /\ provider = "macos"
  /\ platform # "darwin"
  /\ prevCall.op = "SetKey"
  /\ Len(prevCall.arg) = KeySize
  /\ prevCall.err = "PlatformUnavailable"
  /\ lastCall.op = "LoadOrCreateKey"
  /\ lastCall.err = "PlatformUnavailable"
  /\ lastCall.key = NoKey

(***************************************************************************)
(* Properties of the CLI.                                                  *)
(***************************************************************************)
\* the last command rewrote the env file in place
RewroteInPlace(ops) ==
  /\ lastCmd.op \in ops
  /\ lastCmd.write
  /\ lastCmd.err = "none"

\* C22: encrypt -w and decrypt -w change only the values of the variables:
\* the written file has the lines of the original file, every comment line,
\* blank line and other line without a variable as it was, and every variable
\* line with the same text up to and including its "=".
C22_InPlaceKeepsStructure ==
  RewroteInPlace({"encrypt", "decrypt"}) =>
    /\ Len(envFile) = Len(lastCmd.pre)
    /\ \A i \in 1..Len(lastCmd.pre) :
         IF LoadLine(lastCmd.pre[i]) = <<>>
         THEN envFile[i] = lastCmd.pre[i]
         ELSE Take(envFile[i], IndexByte(lastCmd.pre[i], 61))
                = Take(lastCmd.pre[i], IndexByte(lastCmd.pre[i], 61))

\* the names that lastCmd was given and that the file it found already held
NamesPresent == lastCmd.names \cap DOMAIN ToMap(Load(lastCmd.pre))

\* what set does in place of lastCmd: same file, same key, same arguments
SetInstead(n) ==
  setCmdFn(lastCmd.pre, [err |-> "none", key |-> lastCmd.key],
           [k \in lastCmd.names |-> <<110>>], lastCmd.order, FALSE, n)

\* C23: add given a name that the file already holds fails with "already
\* exists" and writes and prints nothing, whether or not -p is given; set
\* with the same arguments on the same file succeeds, and afterwards every
\* given name holds the given value, sealed under the key.
C23_AddRefusesSetOverwrites ==
  (lastCmd.op = "add" /\ lastCmd.key # NoKey /\ NamesPresent # {}) =>
    /\ lastCmd.err = "AlreadyExists"
    /\ envFile = lastCmd.pre
    /\ lastCmd.out = <<>>
    /\ \A n \in 1..NumNonces :
         /\ SetInstead(n).err = "none"
         /\ \A k \in lastCmd.names :
              LET stored == ToMap(Load(SetInstead(n).file))
              IN /\ k \in DOMAIN stored
                 /\ stored[k] # <<110>>
                 /\ Decrypt(stored[k], lastCmd.key).err = "none"
                 /\ Decrypt(stored[k], lastCmd.key).out = <<110>>

\* add A=n C=n on a file that holds A, with a key, without -p
C23_Witness ==
  /\ lastCmd.op = "add"
  /\ lastCmd.key # NoKey
  /\ lastCmd.write
  /\ lastCmd.names = {NameA, NameC}
  /\ NamesPresent = {NameA}
  /\ lastCmd.err = "AlreadyExists"

\* what the last command produced in the env format: the file it wrote with
\* -w, the lines it printed without
Produced == IF lastCmd.write THEN envFile ELSE lastCmd.out

\* C24: after a successful encrypt the variables read back from what it
\* produced are those of the file it found, in the same order; a variable
\* that was not named (when names were given) or whose value was already
\* sealed has exactly the value it had, every other one has its value sealed
\* under the key; and without -w the file itself is as it was.
C24_EncryptSelectsByName ==
  (lastCmd.op = "encrypt" /\ lastCmd.err = "none" /\ lastCmd.key # NoKey) =>
    LET before == Load(lastCmd.pre)
        after == Load(Produced)
    IN /\ ~lastCmd.write => envFile = lastCmd.pre
       /\ Len(after) = Len(before)
       /\ \A i \in 1..Len(before) :
            /\ after[i].Key = before[i].Key
            /\ IF \/ (lastCmd.names # {} /\ before[i].Key \notin lastCmd.names)
                  \/ IsEncrypted(before[i].Value)
               THEN after[i].Value = before[i].Value
               ELSE /\ IsEncrypted(after[i].Value)
                    /\ Decrypt(after[i].Value, lastCmd.key).err = "none"
                    /\ Decrypt(after[i].Value, lastCmd.key).out = before[i].Value

(***************************************************************************)
(* Properties of the interactive password prompts.                         *)
(***************************************************************************)
\* no password is configured and ENVX_PASSWORD is not set: the password
\* provider asks the prompt function
Interactive ==
  /\ provider \in {"password", "passwordEarlier"}
  /\ envPassword = <<>>
  /\ cfgPassword = <<>>

\* the last call is a LoadOrCreateKey that returned the first key of its
\* account: the account had no salt file, or it had the one that a failed
\* provisioning by the call before left behind
ReturnedFirstKey ==
  /\ lastCall.op = "LoadOrCreateKey"
  /\ lastCall.err = "none"
  /\ \/ ~lastCall.pre[lastCall.account].present
     \/ /\ prevCall.op = "LoadOrCreateKey"
        /\ prevCall.account = lastCall.account
        /\ prevCall.created
        /\ prevCall.err # "none"

\* C25: in interactive use the first key that LoadOrCreateKey returns for an
\* account comes from a password that was asked for twice, also when an
\* earlier provisioning failed and left the salt file behind.
C25_FirstKeyConfirmed ==
  (Interactive /\ ReturnedFirstKey) => lastCall.prompts = 2

(***************************************************************************)
(* Properties of the password provider used by two processes.              *)
(***************************************************************************)
AllReturned == \A p \in Processes : processes[p].pc = "done"
Writers == {p \in Processes : processes[p].wrote > 0}
\* the process whose write to the salt file came last
LastWriter ==
  CHOOSE p \in Writers : \A q \in Writers : processes[q].wrote <= processes[p].wrote

\* C26: once both processes have returned and the salt file was written, it
\* holds exactly the 32 bytes of the salt that was written last; and when the
\* call that wrote last returned a key, a later GetKey given the password of
\* that call returns that key.
C26_LastWriterWins ==
  (AllReturned /\ Writers # {}) =>
    /\ store[RaceAccount] = Item(ProcessSalt(LastWriter))
    /\ Len(store[RaceAccount].data) = SaltSize
    /\ processes[LastWriter].err = "none" =>
         LET later == PasswordKeyStore_GetKey(
                        store, RaceAccount, envPassword, cfgPassword,
                        [ok |-> TRUE, text |-> processes[LastWriter].pw])
         IN /\ later.err = "none"
            /\ later.key = processes[LastWriter].key

\* both processes created a salt and returned a key with the same password;
\* the file holds the salt of the second writer, and the key of the first
\* writer is not the one that the file and the password give
C26_Witness ==
  /\ AllReturned
  /\ Writers = Processes
  /\ \A p \in Processes : processes[p].err = "none"
  /\ \A p, q \in Processes : processes[p].pw = processes[q].pw
  /\ \E p \in Processes :
       /\ p # LastWriter
       /\ processes[p].key # processes[LastWriter].key
       /\ store[RaceAccount].data # ProcessSalt(p)

\* the variables of the file that lastCmd found whose value does not decrypt
\* under the key that lastCmd was given
Undecryptable ==
  LET found == Load(lastCmd.pre)
  IN {i \in 1..Len(found) : Decrypt(found[i].Value, lastCmd.key).err # "none"}

\* C27: when the value of any variable fails to decrypt, get and run return
\* an error, print no variable, execute nothing and hand on no variable, also
\* when other variables of the file decrypt; and a run that executes does so
\* with every variable of the file, each with its decrypted value.
C27_DecryptAllOrNothing ==
  (lastCmd.op \in {"get", "run"} /\ lastCmd.key # NoKey) =>
    /\ Undecryptable # {} =>
         /\ lastCmd.err # "none"
         /\ lastCmd.out = <<>>
         /\ ~lastCmd.executed
         /\ lastCmd.env = <<>>
         /\ LoadWithDecryption(lastCmd.pre, lastCmd.key).vars = <<>>
    /\ lastCmd.executed =>
         /\ Undecryptable = {}
         /\ Len(lastCmd.env) = Len(Load(lastCmd.pre))
         /\ \A i \in 1..Len(lastCmd.env) :
              /\ lastCmd.env[i].Key = Load(lastCmd.pre)[i].Key
              /\ lastCmd.env[i].Value
                   = Decrypt(Load(lastCmd.pre)[i].Value, lastCmd.key).out

\* run on a file whose first value decrypts under the key and whose second
\* value, sealed under another key, does not
C27_Witness ==
  /\ lastCmd.op = "run"
  /\ lastCmd.key # NoKey
  /\ Undecryptable = {2}
  /\ Decrypt(Load(lastCmd.pre)[1].Value, lastCmd.key).out = <<118, 49>>
  /\ lastCmd.err = "DecryptionFailed"
  /\ ~lastCmd.executed

\* C28: in interactive use a CreateKey that returns a key has asked the
\* prompt function exactly twice, a GetKey that returns a key exactly once,
\* and a LoadOrCreateKey that found the salt of its account exactly once.
C28_PromptCounts ==
  (Interactive /\ lastCall.err = "none") =>
    /\ lastCall.op = "CreateKey" => lastCall.prompts = 2
    /\ lastCall.op = "GetKey" => lastCall.prompts = 1
    /\ (lastCall.op = "LoadOrCreateKey" /\ ~lastCall.created) =>
         lastCall.prompts = 1

(***************************************************************************)
(* Properties of the MockKeyStore and the slices of its caller.            *)
(***************************************************************************)
\* C29: a write of the caller through the slice it passed to SetKey, or
\* through the slice that GetKey, CreateKey or LoadOrCreateKey returned,
\* leaves what GetKey returns for every account as it was.
C29_CallerWritesDoNotReachStore ==
  caller.op \in {"MutateArgument", "MutateReturned"} =>
    \A a \in Accounts :
      MockKeyStore_GetKey(store, a) = MockKeyStore_GetKey(caller.before, a)

\* C30: in the mock provider every key in the map is 32 bytes long after any
\* sequence of calls, failed ones included, and a key that GetKey or
\* LoadOrCreateKey returns is accepted by Encrypt and by Decrypt: a value
\* sealed under it opens under it.
C30_MockKeysHaveKeySize ==
  provider = "mock" =>
    /\ \A a \in Accounts : store[a].present => Len(store[a].data) = KeySize
    /\ (lastCall.op \in {"GetKey", "LoadOrCreateKey"} /\ lastCall.err = "none") =>
         LET sealed == Encrypt(TextHi, lastCall.key, NonceOf(1))
         IN /\ Len(lastCall.key) = KeySize
            /\ sealed.err = "none"
            /\ Decrypt(sealed.out, lastCall.key).err = "none"
            /\ Decrypt(sealed.out, lastCall.key).out = TextHi

\* a SetKey with a 16-byte key was refused, and the GetKey after it returned
\* the 32-byte key that the map held before
C30_Witness ==
  /\ provider = "mock"
  /\ prevCall.op = "SetKey"
  /\ prevCall.arg = ShortKey
  /\ prevCall.err = "InvalidKeySize"
  /\ lastCall.op = "GetKey"
  /\ lastCall.account = prevCall.account
  /\ lastCall.err = "none"
  /\ Len(lastCall.key) = KeySize

====
